---- MODULE Spec2Model ----
(***************************************************************************)
(* Payroll export (Payrollv2.py): hour classification, on-call            *)
(* reconciliation, leave aggregation, fixed-hours proration and the pay   *)
(* calculation of the preview and of the spreadsheet.                     *)
(*                                                                         *)
(* Units.  The program works on Python floats; the model keeps every      *)
(* quantity as an exact integer:                                          *)
(*   time        seconds (Unix timestamps, durations)                     *)
(*   hours       hundredths of an hour (the program rounds to 2 dp)       *)
(*   days        hundredths of a day                                      *)
(*   leave input thousandths of a day / of an hour (before rounding)      *)
(*   rates       pence per hour                                           *)
(*   salary      pence per year                                           *)
(*   pay         1/PAY_UNITS of a pound, PAY_UNITS = 12 * 100 * 100, so   *)
(*               that hours*rate and annual_salary/12 are both exact      *)
(* A missing value (Python None) of a number is the integer None; an API  *)
(* response is a record [ok, json], ok = FALSE being the None a failed    *)
(* fetch returns.                                                         *)
(***************************************************************************)
EXTENDS Integers, Sequences, FiniteSets, TLC

\* ------------------------------------------------------------ constants
None == 0 - 1

UK_MINIMUM_WAGE == 1221
ON_CALL_ROLE_NAME == "On-Call"
ON_CALL_FLAT_RATE == 1500

PAY_UNITS == 12 * 100 * 100

\* -------------------------------------------------------------- helpers
Min(a, b) == IF a <= b THEN a ELSE b

Max(a, b) == IF a >= b THEN a ELSE b

\* Python truthiness of an optional number: None and 0 are false.
Falsy(x) == x = None \/ x = 0

\* n/d (d > 0) rounded to the nearest integer, an exact tie to the even one.
\* \div is floor division and % is non-negative, so this is right for n < 0.
RoundDiv(n, d) ==
    LET q == n \div d
        r == n % d
    IN  IF 2 * r < d THEN q
        ELSE IF 2 * r > d THEN q + 1
        ELSE IF q % 2 = 0 THEN q ELSE q + 1

\* round(seconds / 3600, 2), in hundredths of an hour.
HoursOfSeconds(seconds) == RoundDiv(seconds * 100, 3600)

\* The empty dict.
EmptyDict == [k \in {} |-> 0]

\* d[k] = v of a dict.
DictPut(d, k, v) == [x \in DOMAIN d \cup {k} |-> IF x = k THEN v ELSE d[x]]

RECURSIVE SeqSum(_)
SeqSum(s) == IF s = <<>> THEN 0 ELSE Head(s) + SeqSum(Tail(s))

RECURSIVE SetSum(_, _)
\* The sum of f[x] over the finite set S.
SetSum(f, S) ==
    IF S = {} THEN 0
    ELSE LET x == CHOOSE y \in S : TRUE
         IN  f[x] + SetSum(f, S \ {x})

\* ------------------------------------------------------- role resolver
\* GET roles/{id}: the names the scheduling service holds.
RoleIds == {1, 2, 3}

ApiRoleName(role_id) ==
    CASE role_id = 1 -> "On-Call"
      [] role_id = 2 -> "Homecare"
      [] OTHER -> "Mid-Shift"

\* f"Role {role_id}"
FallbackRoleName(role_id) ==
    CASE role_id = 1 -> "Role 1"
      [] role_id = 2 -> "Role 2"
      [] OTHER -> "Role 3"

\* get_role_name(role_id); failed is the set of role ids whose request
\* raises (or whose answer has no name) at the time of the call.
get_role_name(role_id, failed) ==
    IF role_id = None THEN "Unknown Role"
    ELSE IF role_id \in failed THEN FallbackRoleName(role_id)
    ELSE ApiRoleName(role_id)

\* ------------------------------------------------------ hour classifier
\* shift.get("minutes_break", 0) or 0
MinutesBreakOf(shift) ==
    IF Falsy(shift.minutes_break) THEN 0 ELSE shift.minutes_break

\* Mutant of IsOnCallRole: the role name compared in the wrong case.
IsOnCallRoleWrongCase(role_name) == role_name = "On-call"

\* Line 368: role_name == ON_CALL_ROLE_NAME.
IsOnCallRole(role_name) == role_name = ON_CALL_ROLE_NAME

\* The locals of calculate_shift_hours_by_role before the loop; the two
\* dicts all_custom_roles and role_id_to_name are the caller's, updated in
\* place.
ClassifyStart(all_roles, names) ==
    [total_seconds |-> 0,
     base_rate_seconds |-> 0,
     role_hours |-> EmptyDict,
     on_call_shifts |-> <<>>,
     all_custom_roles |-> all_roles,
     role_id_to_name |-> names]

\* One iteration of "for shift in shifts_json".
ClassifyShift(acc, shift, role_rates, failed) ==
    LET st_unix == shift.start_time
        en_unix == shift.end_time
        minutes_break == MinutesBreakOf(shift)
        role_id == shift.role
        names == IF role_id \in DOMAIN acc.role_id_to_name
                 THEN acc.role_id_to_name
                 ELSE DictPut(acc.role_id_to_name, role_id,
                              get_role_name(role_id, failed))
        role_name == names[role_id]
        acc1 == [acc EXCEPT !.role_id_to_name = names]
        net_seconds == (en_unix - st_unix) - minutes_break * 60
        acc2 == [acc1 EXCEPT !.total_seconds = @ + net_seconds]
    IN  IF st_unix = None \/ en_unix = None THEN acc1
        ELSE IF IsOnCallRole(role_name)
        THEN [acc1 EXCEPT !.on_call_shifts =
                 Append(@, [shift_id |-> shift.id,
                            start_time |-> st_unix,
                            end_time |-> en_unix,
                            minutes_break |-> minutes_break])]
        ELSE IF ~Falsy(role_id) /\ role_id \in DOMAIN role_rates
        THEN LET entry == IF role_id \in DOMAIN acc2.role_hours
                          THEN acc2.role_hours[role_id]
                          ELSE [seconds |-> 0,
                                rate |-> role_rates[role_id],
                                name |-> get_role_name(role_id, failed)]
                 roles == IF role_id \in DOMAIN acc2.role_hours
                          THEN acc2.all_custom_roles
                          ELSE DictPut(acc2.all_custom_roles, role_id,
                                       get_role_name(role_id, failed))
             IN  [acc2 EXCEPT
                    !.role_hours = DictPut(@, role_id,
                        [entry EXCEPT !.seconds = @ + net_seconds]),
                    !.all_custom_roles = roles]
        ELSE [acc2 EXCEPT !.base_rate_seconds = @ + net_seconds]

RECURSIVE ClassifyLoop(_, _, _, _)
ClassifyLoop(acc, shifts, role_rates, failed) ==
    IF shifts = <<>> THEN acc
    ELSE ClassifyLoop(ClassifyShift(acc, Head(shifts), role_rates, failed),
                      Tail(shifts), role_rates, failed)

\* calculate_shift_hours_by_role: the four values returned, the two dicts
\* it updates, and its accumulators as they are at the return.
calculate_shift_hours_by_role(shifts_resp, user_pay_details, all_roles, names, failed) ==
    LET start == ClassifyStart(all_roles, names)
        acc == IF ~shifts_resp.ok \/ shifts_resp.json = <<>> THEN start
               ELSE ClassifyLoop(start, shifts_resp.json,
                                 user_pay_details.role_rates, failed)
    IN  [total_hours |-> HoursOfSeconds(acc.total_seconds),
         base_rate_hours |-> HoursOfSeconds(acc.base_rate_seconds),
         role_hours_converted |->
             [r \in DOMAIN acc.role_hours |->
                 [hours |-> HoursOfSeconds(acc.role_hours[r].seconds),
                  rate |-> acc.role_hours[r].rate,
                  name |-> acc.role_hours[r].name]],
         on_call_shifts |-> acc.on_call_shifts,
         all_custom_roles |-> acc.all_custom_roles,
         role_id_to_name |-> acc.role_id_to_name,
         total_seconds |-> acc.total_seconds,
         base_rate_seconds |-> acc.base_rate_seconds,
         role_hours |-> acc.role_hours]

\* --------------------------------------------------- on-call reconciler
\* shift_lookup: the stub ids with a true shift_id ("if not shift_id: continue").
ShiftLookupIds(stubs) ==
    {stubs[i].shift_id : i \in {j \in DOMAIN stubs : ~Falsy(stubs[j].shift_id)}}

\* Mutant of AttendanceSeconds: deleted records are not skipped.
AttendanceSecondsOfDeleted(attendance, lookup) ==
    IF attendance.shift \notin lookup THEN 0
    ELSE IF Falsy(attendance.in_time) \/ Falsy(attendance.out_time) THEN 0
    ELSE IF attendance.out_time - attendance.in_time <= 0 THEN 0
    ELSE attendance.out_time - attendance.in_time

\* One iteration of "for attendance in attendance_data": the seconds added to
\* the running total (hours_worked = (out_time - in_time) / 3600.0), 0 for a
\* record a "continue" skips.
AttendanceSeconds(attendance, lookup) ==
    IF attendance.deleted THEN 0
    ELSE IF attendance.shift \notin lookup THEN 0
    ELSE IF Falsy(attendance.in_time) \/ Falsy(attendance.out_time) THEN 0
    ELSE IF attendance.out_time - attendance.in_time <= 0 THEN 0
    ELSE attendance.out_time - attendance.in_time

RECURSIVE AttendanceLoop(_, _, _)
AttendanceLoop(total, records, lookup) ==
    IF records = <<>> THEN total
    ELSE AttendanceLoop(total + AttendanceSeconds(Head(records), lookup),
                        Tail(records), lookup)

\* Mutant of calculate_on_call_hours: without attendance no shift is counted.
calculate_on_call_hours_attended(stubs, attendance_resp) ==
    IF stubs = <<>> \/ ~attendance_resp.ok \/ attendance_resp.json = <<>>
    THEN [hours |-> 0, shifts |-> 0]
    ELSE [hours |-> HoursOfSeconds(
                        AttendanceLoop(0, attendance_resp.json, ShiftLookupIds(stubs))),
          shifts |-> Len(stubs)]

\* Mutant of calculate_on_call_hours: a failed attendance request counts no
\* shift.
calculate_on_call_hours_failed_uncounted(stubs, attendance_resp) ==
    IF stubs = <<>> \/ ~attendance_resp.ok THEN [hours |-> 0, shifts |-> 0]
    ELSE IF attendance_resp.json = <<>> THEN [hours |-> 0, shifts |-> Len(stubs)]
    ELSE [hours |-> HoursOfSeconds(
                        AttendanceLoop(0, attendance_resp.json, ShiftLookupIds(stubs))),
          shifts |-> Len(stubs)]

\* calculate_on_call_hours: (total_on_call_hours, total_on_call_shifts).
calculate_on_call_hours(stubs, attendance_resp) ==
    IF stubs = <<>> THEN [hours |-> 0, shifts |-> 0]
    ELSE IF ~attendance_resp.ok \/ attendance_resp.json = <<>>
    THEN [hours |-> 0, shifts |-> Len(stubs)]
    ELSE [hours |-> HoursOfSeconds(
                        AttendanceLoop(0, attendance_resp.json, ShiftLookupIds(stubs))),
          shifts |-> Len(stubs)]

\* ----------------------------------------------------- leave aggregator
\* A date is <<year, month, day>>; a date string is the same triple, which
\* strptime("%Y-%m-%d") refuses when it is no calendar date, and <<>> when the
\* entry has no date.
NoDate == <<>>

IsLeapYear(y) == (y % 4 = 0 /\ y % 100 # 0) \/ y % 400 = 0

DaysInMonth(y, m) ==
    IF m \in {4, 6, 9, 11} THEN 30
    ELSE IF m = 2 THEN (IF IsLeapYear(y) THEN 29 ELSE 28)
    ELSE 31

date_str_to_date(date_str) ==
    IF date_str = <<>> THEN NoDate
    ELSE IF date_str[2] \in 1..12 /\ date_str[3] \in 1..DaysInMonth(date_str[1], date_str[2])
    THEN date_str
    ELSE NoDate

\* Mutant of DateLE: a < b, the bounds of the period excluded.
DateLess(a, b) ==
    \/ a[1] < b[1]
    \/ a[1] = b[1] /\ a[2] < b[2]
    \/ a[1] = b[1] /\ a[2] = b[2] /\ a[3] < b[3]

\* a <= b of two dates.
DateLE(a, b) ==
    \/ a[1] < b[1]
    \/ a[1] = b[1] /\ a[2] < b[2]
    \/ a[1] = b[1] /\ a[2] = b[2] /\ a[3] <= b[3]

\* date_entry.get(key, 0) or 0
OrZero(x) == IF Falsy(x) THEN 0 ELSE x

\* One iteration of "for date_entry in record.get('dates', [])".
LeaveEntry(acc, leave_type, date_entry, report_start_date, report_end_date) ==
    LET ddate == date_str_to_date(date_entry.date)
        days_val == OrZero(date_entry.days)
        hours_val == OrZero(date_entry.hours)
    IN  IF ddate = NoDate THEN acc
        ELSE IF DateLE(report_start_date, ddate) /\ DateLE(ddate, report_end_date)
        THEN IF leave_type = 1
             THEN [acc EXCEPT !.holiday_days = @ + days_val,
                              !.holiday_hours = @ + hours_val]
             ELSE IF leave_type = 3
             THEN [acc EXCEPT !.sickness_days = @ + days_val]
             ELSE acc
        ELSE acc

RECURSIVE LeaveDates(_, _, _, _, _)
LeaveDates(acc, leave_type, dates, report_start_date, report_end_date) ==
    IF dates = <<>> THEN acc
    ELSE LeaveDates(LeaveEntry(acc, leave_type, Head(dates),
                               report_start_date, report_end_date),
                    leave_type, Tail(dates), report_start_date, report_end_date)

RECURSIVE LeaveLoop(_, _, _, _)
LeaveLoop(acc, records, report_start_date, report_end_date) ==
    IF records = <<>> THEN acc
    ELSE LET record == Head(records)
             acc1 == IF record.status # "approved" THEN acc
                     ELSE LeaveDates(acc, record.type, record.dates,
                                     report_start_date, report_end_date)
         IN  LeaveLoop(acc1, Tail(records), report_start_date, report_end_date)

\* round(x, 2) of a total kept in thousandths, in hundredths.
Round2OfThousandths(x) == RoundDiv(x, 10)

\* calculate_leave_hours: (holiday_days, holiday_hours, sickness_days).
calculate_leave_hours(leave_resp, report_start_date, report_end_date) ==
    LET zero == [holiday_days |-> 0, holiday_hours |-> 0, sickness_days |-> 0]
        acc == IF ~leave_resp.ok \/ leave_resp.json = <<>> THEN zero
               ELSE LeaveLoop(zero, leave_resp.json, report_start_date, report_end_date)
    IN  [holiday_days |-> Round2OfThousandths(acc.holiday_days),
         holiday_hours |-> Round2OfThousandths(acc.holiday_hours),
         sickness_days |-> Round2OfThousandths(acc.sickness_days)]

\* ------------------------------------------------- fixed-hours proration
\* Mutant of calculate_fixed_hours: no test of the signs of the inputs.
calculate_fixed_hours_unguarded(weekly_hours, days) ==
    RoundDiv((days \div 7) * weekly_hours * 7 + (days % 7) * weekly_hours, 7)

\* Mutant of calculate_fixed_hours: the partial week is dropped.
calculate_fixed_hours_full_weeks(weekly_hours, days) ==
    IF weekly_hours <= 0 \/ days <= 0 THEN 0
    ELSE (days \div 7) * weekly_hours

\* calculate_fixed_hours; weekly_hours and the result in hundredths of an hour.
\* full_weeks*weekly_hours + (remainder_days/7)*weekly_hours is taken over the
\* common denominator 7 and rounded once.
calculate_fixed_hours(weekly_hours, days) ==
    IF weekly_hours <= 0 \/ days <= 0 THEN 0
    ELSE LET full_weeks == days \div 7
             remainder_days == days % 7
             full_weeks_total == full_weeks * weekly_hours
         IN  RoundDiv(full_weeks_total * 7 + remainder_days * weekly_hours, 7)

\* ------------------------------------------------------------ pay profile
\* get_user_pay_details. role_rates keeps the roles whose per_hour is given.
get_user_pay_details(user_data) ==
    [pay_type |-> user_data.salary_type,
     hourly_rate |-> IF user_data.salary_type = "hourly" /\ user_data.salary # None
                     THEN user_data.salary ELSE 0,
     annual_salary |-> IF user_data.salary_type = "annual" /\ user_data.salary # None
                       THEN user_data.salary ELSE 0,
     role_rates |-> [r \in {x \in DOMAIN user_data.role_rates :
                                user_data.role_rates[x] # None} |->
                        user_data.role_rates[r]],
     standard_weekly_hours |-> IF user_data.weekly_hours # None
                               THEN user_data.weekly_hours ELSE 0]

\* Rate 1 of the main loop, in pence (not yet rounded; exact for hourly staff,
\* and for salaried staff rounded where the record rounds it).
Rate1(pay_details) ==
    IF pay_details.pay_type = "hourly" THEN pay_details.hourly_rate
    ELSE IF pay_details.pay_type = "annual" /\ pay_details.standard_weekly_hours > 0
    THEN RoundDiv(pay_details.annual_salary * 100,
                  52 * pay_details.standard_weekly_hours)
    ELSE 0

\* ------------------------------------------------------ period calculator
\* date.toordinal(): the days from 1 Jan of year 1 (day 1) to the date.
RECURSIVE DaysBeforeMonth(_, _)
DaysBeforeMonth(y, m) ==
    IF m <= 1 THEN 0 ELSE DaysInMonth(y, m - 1) + DaysBeforeMonth(y, m - 1)

ToOrdinal(date) ==
    LET y == date[1] - 1
    IN  y * 365 + (y \div 4) - (y \div 100) + (y \div 400)
        + DaysBeforeMonth(date[1], date[2]) + date[3]

\* datetime.MINYEAR and datetime.MAXYEAR, the years datetime.date accepts.
MINYEAR == 1

MAXYEAR == 9999

\* datetime.date(year, month, day); NoDate stands for the ValueError.
MakeDate(year, month, day) ==
    IF year \in MINYEAR..MAXYEAR /\ month \in 1..12
       /\ day \in 1..DaysInMonth(year, month)
    THEN <<year, month, day>>
    ELSE NoDate

\* (None, None)
NoPeriod == <<NoDate, NoDate>>

\* Mutant of get_monthly_payroll_period: the end date in the year of the
\* start date, December included.
get_monthly_payroll_period_same_year(year, month) ==
    LET start == MakeDate(year, month, 11)
        next_month == IF month = 12 THEN 1 ELSE month + 1
        end == MakeDate(year, next_month, 10)
    IN  IF start = NoDate THEN NoPeriod
        ELSE IF end = NoDate THEN NoPeriod
        ELSE <<start, end>>

\* get_monthly_payroll_period: <<start_date, end_date>>, or NoPeriod when
\* one of the two dates does not exist.
get_monthly_payroll_period(year, month) ==
    LET start == MakeDate(year, month, 11)
        next_month == IF month = 12 THEN 1 ELSE month + 1
        next_year == IF month = 12 THEN year + 1 ELSE year
        end == MakeDate(next_year, next_month, 10)
    IN  IF start = NoDate THEN NoPeriod
        ELSE IF end = NoDate THEN NoPeriod
        ELSE <<start, end>>

\* Mutant of get_default_payroll_period: up to the 10th, the period that
\* ended on the 10th of the month before.
get_default_payroll_period_by_day(today_date) ==
    LET back(n) == LET idx == today_date[1] * 12 + (today_date[2] - 1) - n
                   IN  <<idx \div 12, (idx % 12) + 1>>
        target == IF today_date[3] <= 10 THEN back(2) ELSE back(1)
    IN  get_monthly_payroll_period(target[1], target[2])

\* get_default_payroll_period, today being datetime.date.today().
get_default_payroll_period(today_date) ==
    LET target ==
            IF today_date[3] <= 10
            THEN (IF today_date[2] = 1
                  THEN <<today_date[1] - 1, 12>>
                  ELSE <<today_date[1], today_date[2] - 1>>)
            ELSE (IF today_date[2] = 1
                  THEN <<today_date[1] - 1, 12>>
                  ELSE <<today_date[1], today_date[2] - 1>>)
    IN  get_monthly_payroll_period(target[1], target[2])

\* Mutant of NextPeriod: the month after December is month 13.
NextPeriodNoRollover(year, month) == <<year, month + 1>>

\* Lines 140-144, the Next button: the <<year, month>> stored.
NextPeriod(year, month) ==
    IF month = 12 THEN <<year + 1, 1>> ELSE <<year, month + 1>>

\* Lines 122-126, the Previous button: the <<year, month>> stored.
PreviousPeriod(year, month) ==
    IF month = 1 THEN <<year - 1, 12>> ELSE <<year, month - 1>>

\* api_key_input.strip(); the inputs are "", " " and keys without blanks.
Strip(text) == IF text = " " THEN "" ELSE text

\* Lines 193-199: API_KEY, "" standing for None and for the empty string.
ResolveApiKey(input, env) ==
    IF input # "" THEN Strip(input)
    ELSE IF env # "" THEN env
    ELSE ""

\* Mutant of ScriptStops: the API key is not looked at.
ScriptStopsOnPeriod(start, end, key) == start = NoDate \/ end = NoDate

\* Lines 154 and 201: the two st.stop() of the configuration.
ScriptStops(start, end, key) == start = NoDate \/ end = NoDate \/ key = ""

\* The difference of the two dates, the end date not counted.
calculate_period_days_exclusive(start, end) == ToOrdinal(end) - ToOrdinal(start)

calculate_period_days(start, end) == (ToOrdinal(end) - ToOrdinal(start)) + 1

\* ------------------------------------------------------------------ state
VARIABLES
    pc,                  \* where the script stands or has ended
    today,               \* datetime.date.today()
    payroll_period_year, payroll_period_month,   \* st.session_state
    default_start, default_end,   \* the last answer of get_default_payroll_period
    api_key_input,       \* the sidebar text input
    env_api_key,         \* os.environ ROTACLOUD_API_KEY, "" when not set
    ignored_user_ids,    \* the ids of the sidebar input
    clicked,             \* the widget that started the script run
    clicks,              \* the number of script runs started by a widget
    messages,            \* the st.error and st.warning shown by the script run
    requests,            \* the requests of the script run: <<fetcher, user id>>
    user,                \* the user being processed (GET users entry)
    pending,             \* the users of users_to_process after this one
    start_date, end_date, period_days, overtime_rate,
    pay_details, rate_1, fixed_hours,
    shifts_json,         \* response of GET shifts
    total_seconds, base_rate_seconds, role_hours,
    total_hours, base_rate_hours, custom_role_hours, on_call_shifts,
    role_id_to_name, all_custom_roles,
    attendance_data,     \* response of GET attendance
    on_call_hours, on_call_shift_count,
    leave_json,          \* response of GET leave
    holiday_days, holiday_hours, sickness_days,
    payroll_data,        \* the records appended by the main loop
    preview_rows,        \* the rows of the preview table
    sheet_rows,          \* the data rows of the worksheet, formulas evaluated
    totals_row           \* the TOTALS row of the worksheet, formulas evaluated

sessionVars == <<today, payroll_period_year, payroll_period_month, default_start,
                 default_end, api_key_input, env_api_key, ignored_user_ids,
                 clicked, clicks>>

loopVars == <<user, pending>>

runVars == <<start_date, end_date, period_days, overtime_rate>>

profileVars == <<pay_details, rate_1, fixed_hours>>

shiftVars == <<shifts_json, total_seconds, base_rate_seconds, role_hours,
               total_hours, base_rate_hours, custom_role_hours, on_call_shifts,
               role_id_to_name, all_custom_roles>>

onCallVars == <<attendance_data, on_call_hours, on_call_shift_count>>

leaveVars == <<leave_json, holiday_days, holiday_hours, sickness_days>>

outVars == <<payroll_data, preview_rows, sheet_rows, totals_row>>

vars == <<pc, sessionVars, messages, requests, loopVars, runVars, profileVars,
          shiftVars, onCallVars, leaveVars, outVars>>

\* A request not made yet; also the None of a failed fetch.
\* Line 982: the users request, which is for no user.
UsersRequest == <<"users", None>>

NoResponse == [ok |-> FALSE, json |-> <<>>]

Response(json) == [ok |-> TRUE, json |-> json]

\* ------------------------------------------------------------- main loop
\* Lines 999-1043: pay details, Rate 1, fixed hours, the shifts request and
\* the classification of its answer. Responses are the answers GET shifts may
\* give, FailedSets the sets of role ids whose name request may fail.
ProcessUserShifts(Responses, FailedSets) ==
    /\ pc = "shifts"
    /\ \E resp \in Responses, failed \in FailedSets :
         LET details == get_user_pay_details(user)
             r == calculate_shift_hours_by_role(resp, details, all_custom_roles,
                                                role_id_to_name, failed)
             missing == {x \in DOMAIN r.role_hours_converted :
                            x \notin DOMAIN r.all_custom_roles}
         IN  /\ pay_details' = details
             /\ rate_1' = Rate1(details)
             /\ fixed_hours' = calculate_fixed_hours(details.standard_weekly_hours,
                                                     period_days)
             /\ shifts_json' = resp
             /\ total_seconds' = r.total_seconds
             /\ base_rate_seconds' = r.base_rate_seconds
             /\ role_hours' = r.role_hours
             /\ total_hours' = r.total_hours
             /\ base_rate_hours' = r.base_rate_hours
             /\ custom_role_hours' = r.role_hours_converted
             /\ on_call_shifts' = r.on_call_shifts
             /\ role_id_to_name' = r.role_id_to_name
             /\ all_custom_roles' =
                    [x \in DOMAIN r.all_custom_roles \cup missing |->
                        IF x \in DOMAIN r.all_custom_roles
                        THEN r.all_custom_roles[x]
                        ELSE r.role_hours_converted[x].name]
    /\ requests' = requests \cup {<<"shifts", user.id>>}
    /\ pc' = "attendance"
    /\ UNCHANGED <<sessionVars, messages, loopVars, runVars, onCallVars, leaveVars,
                   outVars>>

\* The st.warning of get_attendance_data (line 296) and of
\* calculate_on_call_hours (lines 513 and 517), as <<level, text, id>>, the id
\* being the user's for the fetch and the shift's for the hours.
AttendanceWarnings(stubs, attendance_resp, user_id) ==
    IF ~attendance_resp.ok
    THEN {<<"warning", "Could not fetch attendance data", user_id>>}
    ELSE LET records == attendance_resp.json
             timed == {k \in DOMAIN records :
                          /\ ~records[k].deleted
                          /\ records[k].shift \in ShiftLookupIds(stubs)
                          /\ ~Falsy(records[k].in_time)
                          /\ ~Falsy(records[k].out_time)}
             seconds(k) == records[k].out_time - records[k].in_time
         IN  {<<"warning", "Invalid On-Call hours", records[k].shift>> :
                 k \in {x \in timed : seconds(x) <= 0}}
             \cup {<<"warning", "Suspiciously long On-Call shift", records[k].shift>> :
                      k \in {x \in timed : seconds(x) > 12 * 3600}}

\* Mutant of AttendanceNeeded: attendance is requested for every employee.
AttendanceNeededAlways(stubs) == TRUE

\* Line 1048: "if on_call_shifts:".
AttendanceNeeded(stubs) == stubs # <<>>

\* Lines 1046-1063: the attendance request, made only when the classifier
\* returned on-call shifts, and the on-call reconciliation.
ProcessUserAttendance(Responses) ==
    /\ pc = "attendance"
    /\ IF AttendanceNeeded(on_call_shifts)
       THEN \E resp \in Responses :
              LET r == calculate_on_call_hours(on_call_shifts, resp)
              IN  /\ attendance_data' = resp
                  /\ on_call_hours' = r.hours
                  /\ on_call_shift_count' = r.shifts
                  /\ requests' = requests \cup {<<"attendance", user.id>>}
                  /\ messages' = messages
                                 \cup AttendanceWarnings(on_call_shifts, resp, user.id)
       ELSE /\ on_call_hours' = 0
            /\ on_call_shift_count' = 0
            /\ UNCHANGED <<attendance_data, requests, messages>>
    /\ pc' = "leave"
    /\ UNCHANGED <<sessionVars, loopVars, runVars, profileVars, shiftVars, leaveVars,
                   outVars>>

\* Mutant of IncludeUser: on-call hours alone do not include the user.
IncludeUserWithoutOnCall(hours, hol_hours, hol_days, sick_days, oc_hours) ==
    hours > 0 \/ hol_hours > 0 \/ hol_days > 0 \/ sick_days > 0

\* The condition of line 1074.
IncludeUser(hours, hol_hours, hol_days, sick_days, oc_hours) ==
    hours > 0 \/ hol_hours > 0 \/ hol_days > 0 \/ sick_days > 0 \/ oc_hours > 0

\* The dict of lines 1075-1092.
PayrollRecord(leave) ==
    [employee_name |-> user.name,
     pay_type |-> pay_details.pay_type,
     annual_salary |-> pay_details.annual_salary,
     hourly_rate |-> pay_details.hourly_rate,
     weekly_hours |-> pay_details.standard_weekly_hours,
     total_hours |-> total_hours,
     total_hours_display |-> total_hours + on_call_hours,
     fixed_hours |-> fixed_hours,
     rate_1 |-> rate_1,
     base_rate_hours |-> base_rate_hours,
     custom_role_hours |-> custom_role_hours,
     on_call_hours |-> on_call_hours,
     on_call_shift_count |-> on_call_shift_count,
     holiday_days |-> leave.holiday_days,
     holiday_hours |-> leave.holiday_hours,
     sickness_days |-> leave.sickness_days]

\* Lines 1070-1092: the leave request, the leave totals and the inclusion
\* filter; then the loop goes to the next user of users_to_process, whose
\* locals are those of this user until the steps of the loop assign them.
ProcessUserLeave(Responses) ==
    /\ pc = "leave"
    /\ \E resp \in Responses :
         LET r == calculate_leave_hours(resp, start_date, end_date)
         IN  /\ leave_json' = resp
             /\ holiday_days' = r.holiday_days
             /\ holiday_hours' = r.holiday_hours
             /\ sickness_days' = r.sickness_days
             /\ payroll_data' =
                    IF IncludeUser(total_hours, r.holiday_hours, r.holiday_days,
                                   r.sickness_days, on_call_hours)
                    THEN Append(payroll_data, PayrollRecord(r))
                    ELSE payroll_data
    /\ requests' = requests \cup {<<"leave", user.id>>}
    /\ IF pending = <<>>
       THEN /\ pc' = "preview"
            /\ UNCHANGED loopVars
       ELSE /\ pc' = "shifts"
            /\ user' = Head(pending)
            /\ pending' = Tail(pending)
    /\ UNCHANGED <<sessionVars, messages, runVars, profileVars, shiftVars,
                   onCallVars, preview_rows, sheet_rows, totals_row>>

\* ------------------------------------------------------- pay calculator
\* hours (hundredths) * rate (pence), in pay units.
PayOfHours(hours, rate) == hours * rate * (PAY_UNITS \div (100 * 100))

\* An amount in pence, in pay units.
PayOfPence(pence) == pence * (PAY_UNITS \div 100)

\* annual_salary / 12 of a salary in pence, in pay units (PAY_UNITS / 100 is a
\* multiple of 12, so the quotient is exact).
MonthlySalary(annual_salary) == annual_salary * ((PAY_UNITS \div 100) \div 12)

\* round(amount, 2) of an amount in pay units, in pence.
RoundPay(amount) == RoundDiv(amount, PAY_UNITS \div 100)

\* Mutant of NameKey: the rank of the name itself, capitals before small
\* letters.
NameKeyCaseSensitive(name) ==
    CASE name = "Ann Lee" -> 1
      [] name = "Cy Poe" -> 2
      [] name = "Dee Fox" -> 3
      [] OTHER -> 4

\* The rank of name.lower() in the order of strings, for the names in use:
\* "ann lee" < "bob ray" < "cy poe" < "dee fox".
NameKey(name) ==
    CASE name = "Ann Lee" -> 1
      [] name = "bob Ray" -> 2
      [] name = "Cy Poe" -> 3
      [] OTHER -> 4

RECURSIVE InsertByName(_, _)
\* rec placed after the records whose key is not greater (the sort is stable).
InsertByName(sorted, rec) ==
    IF sorted = <<>> THEN <<rec>>
    ELSE IF NameKey(rec.employee_name) < NameKey(Head(sorted).employee_name)
    THEN <<rec>> \o sorted
    ELSE <<Head(sorted)>> \o InsertByName(Tail(sorted), rec)

RECURSIVE SortByName(_)
SortByName(records) ==
    IF records = <<>> THEN <<>>
    ELSE InsertByName(SortByName(SubSeq(records, 1, Len(records) - 1)),
                      records[Len(records)])

\* Lines 1100-1107.
SortPayroll(records) ==
    SortByName(SelectSeq(records, LAMBDA p : p.pay_type = "annual"))
    \o SortByName(SelectSeq(records, LAMBDA p : p.pay_type # "annual"))

\* sum(rd['hours'] * rd['rate'] for rd in data['custom_role_hours'].values())
CustomRolePay(custom) ==
    SetSum([r \in DOMAIN custom |-> PayOfHours(custom[r].hours, custom[r].rate)],
           DOMAIN custom)

\* Mutant of HoursWorked: MIN(Total, Fixed), on-call hours not deducted.
HoursWorkedMinTotalFixed(data) == Min(data.total_hours, data.fixed_hours)

\* Line 1122: hours_worked.
HoursWorked(data) == Min(data.total_hours, data.fixed_hours - data.on_call_hours)

\* Mutant of OvertimeHrs: the hours other than on-call above the fixed hours.
OvertimeHrsWithoutOnCall(data) == Max(0, data.total_hours - data.fixed_hours)

\* Line 1125: overtime_hrs.
OvertimeHrs(data) == Max(0, data.total_hours_display - data.fixed_hours)

\* Mutant of TotalPay: the flat rate is paid only for attended on-call work.
TotalPayAttendedShifts(data, hours_worked, overtime_hrs, rate_2) ==
    IF data.pay_type = "annual"
    THEN MonthlySalary(data.annual_salary)
    ELSE PayOfHours(hours_worked, data.rate_1)
         + CustomRolePay(data.custom_role_hours)
         + PayOfHours(data.on_call_hours, data.rate_1)
         + (IF data.on_call_hours > 0
            THEN PayOfPence(data.on_call_shift_count * ON_CALL_FLAT_RATE) ELSE 0)
         + PayOfHours(overtime_hrs, rate_2)
         + PayOfHours(data.holiday_hours, data.rate_1)

\* Mutant of TotalPay: salaried staff paid by the hourly formula.
TotalPayByHours(data, hours_worked, overtime_hrs, rate_2) ==
    PayOfHours(hours_worked, data.rate_1)
    + CustomRolePay(data.custom_role_hours)
    + PayOfHours(data.on_call_hours, data.rate_1)
    + PayOfPence(data.on_call_shift_count * ON_CALL_FLAT_RATE)
    + PayOfHours(overtime_hrs, rate_2)
    + PayOfHours(data.holiday_hours, data.rate_1)

\* Lines 1127-1141: total_pay.
TotalPay(data, hours_worked, overtime_hrs, rate_2) ==
    IF data.pay_type = "annual"
    THEN MonthlySalary(data.annual_salary)
    ELSE LET custom_role_pay == CustomRolePay(data.custom_role_hours)
             base_pay == PayOfHours(hours_worked, data.rate_1)
             on_call_hours_pay == PayOfHours(data.on_call_hours, data.rate_1)
             on_call_shifts_pay ==
                 PayOfPence(data.on_call_shift_count * ON_CALL_FLAT_RATE)
             overtime_pay == PayOfHours(overtime_hrs, rate_2)
             holiday_pay == PayOfHours(data.holiday_hours, data.rate_1)
         IN  base_pay + custom_role_pay + on_call_hours_pay + on_call_shifts_pay
             + overtime_pay + holiday_pay

\* Lines 1118-1166: one row of the preview.
PreviewRow(data, rate_2) ==
    LET hours_worked == HoursWorked(data)
        overtime_hrs == OvertimeHrs(data)
        total_pay == TotalPay(data, hours_worked, overtime_hrs, rate_2)
    IN  [employee_name |-> data.employee_name,
         hours_worked |-> hours_worked,
         overtime_hrs |-> overtime_hrs,
         total_pay |-> total_pay,
         total_pay_rounded |-> RoundPay(total_pay)]

\* Lines 1096-1166: nothing to show stops the run; else the records are
\* sorted and the preview rows built.
Preview ==
    /\ pc = "preview"
    /\ IF payroll_data = <<>>
       THEN /\ pc' = "done"
            /\ messages' = messages \cup {<<"warning", "No payroll data found", None>>}
            /\ UNCHANGED outVars
       ELSE LET sorted == SortPayroll(payroll_data)
            IN  /\ payroll_data' = sorted
                /\ preview_rows' = [i \in DOMAIN sorted |->
                                       PreviewRow(sorted[i], overtime_rate)]
                /\ pc' = "excel"
                /\ UNCHANGED <<sheet_rows, totals_row, messages>>
    /\ UNCHANGED <<sessionVars, requests, loopVars, runVars, profileVars, shiftVars,
                   onCallVars, leaveVars>>

\* ------------------------------------------------------ export renderer
\* data['custom_role_hours'].get(role_id, {'hours': 0, 'rate': 0})
RoleCells(data, role_id) ==
    IF role_id \in DOMAIN data.custom_role_hours
    THEN [hours |-> data.custom_role_hours[role_id].hours,
          rate |-> data.custom_role_hours[role_id].rate]
    ELSE [hours |-> 0, rate |-> 0]

\* The rank of a role name in the order of strings, for the names in use.
RoleNameKey(name) ==
    CASE name = "Homecare" -> 1
      [] name = "Mid-Shift" -> 2
      [] name = "On-Call" -> 3
      [] name = "Role 1" -> 4
      [] name = "Role 2" -> 5
      [] name = "Role 3" -> 6
      [] OTHER -> 7

RECURSIVE SortedRolesById(_)
\* Mutant of SortedRoles: the roles in the order of their ids.
SortedRolesById(roles) ==
    IF DOMAIN roles = {} THEN <<>>
    ELSE LET first == CHOOSE r \in DOMAIN roles : \A q \in DOMAIN roles : r <= q
         IN  <<first>> \o SortedRolesById([q \in DOMAIN roles \ {first} |-> roles[q]])

RECURSIVE SortedRoles(_)
\* Line 620, sorted_roles: the role ids of all_custom_roles in the order of
\* their names (no two roles in use have the same name).
SortedRoles(roles) ==
    IF DOMAIN roles = {} THEN <<>>
    ELSE LET first == CHOOSE r \in DOMAIN roles :
                          \A q \in DOMAIN roles :
                              RoleNameKey(roles[r]) <= RoleNameKey(roles[q])
         IN  <<first>> \o SortedRoles([q \in DOMAIN roles \ {first} |-> roles[q]])

\* Mutant of HoursFormula: =MIN(Total Hrs, Fixed Hrs).
HoursFormulaMinTotalFixed(total_hrs, on_call_hrs, fixed_hrs) == Min(total_hrs, fixed_hrs)

\* Line 763, hours_formula: =MIN(Total-OnCall, Fixed-OnCall) on the cells.
HoursFormula(total_hrs, on_call_hrs, fixed_hrs) ==
    Min(total_hrs - on_call_hrs, fixed_hrs - on_call_hrs)

\* Line 831, overtime_formula: =MAX(0, Total-Fixed) on the cells.
OvertimeFormula(total_hrs, fixed_hrs) == Max(0, total_hrs - fixed_hrs)

\* Lines 703-917: the cells of one data row, each formula replaced by the
\* value the spreadsheet computes for it from the cells of the row. columns
\* is the order of the custom-role pairs: the pair of columns[k] is in the
\* columns custom_role_start_col + 2 * (k - 1) and the next.
SheetRow(data, rate_2, roles) ==
    LET total_hrs == data.total_hours_display
        fixed_hrs == data.fixed_hours
        on_call_hrs == data.on_call_hours
        custom == [r \in DOMAIN roles |-> RoleCells(data, r)]
        hours == HoursFormula(total_hrs, on_call_hrs, fixed_hrs)
        overtime == OvertimeFormula(total_hrs, fixed_hrs)
        total_pay ==
            IF data.pay_type = "annual"
            THEN MonthlySalary(data.annual_salary)
            ELSE PayOfHours(hours, data.rate_1)
                 + SetSum([r \in DOMAIN custom |->
                              PayOfHours(custom[r].hours, custom[r].rate)],
                          DOMAIN custom)
                 + PayOfHours(on_call_hrs, data.rate_1)
                 + PayOfPence(data.on_call_shift_count * ON_CALL_FLAT_RATE)
                 + PayOfHours(overtime, rate_2)
                 + PayOfHours(data.holiday_hours, data.rate_1)
    IN  [employee_name |-> data.employee_name,
         weekly_hrs |-> data.weekly_hours,
         total_hrs |-> total_hrs,
         fixed_hrs |-> fixed_hrs,
         hours |-> hours,
         rate_1 |-> data.rate_1,
         columns |-> SortedRoles(roles),
         custom |-> custom,
         on_call_hrs |-> on_call_hrs,
         on_call_shifts |-> data.on_call_shift_count,
         on_call_flat_rate |-> ON_CALL_FLAT_RATE,
         overtime_hrs |-> overtime,
         rate_2 |-> rate_2,
         holiday_days |-> data.holiday_days,
         holiday_hrs |-> data.holiday_hours,
         sickness_days |-> data.sickness_days,
         total_pay |-> total_pay]

\* Line 698: the worksheet row of the first record; the record at position
\* i of payroll_data is in row data_start_row + i - 1.
data_start_row == 3

\* Line 920.
last_data_row(records) == data_start_row + Len(records) - 1

\* =SUM(X<first_row>:X<last_row>) of a column X, cells[i] being the cell of X
\* in the row of record i; a row of the range that holds no record has an
\* empty cell.
SumColumn(cells, first_row, last_row) ==
    SetSum([r \in first_row..last_row |->
               IF r - data_start_row + 1 \in DOMAIN cells
               THEN cells[r - data_start_row + 1]
               ELSE 0],
           first_row..last_row)

\* No worksheet yet.
NoTotals == [row |-> 0]

\* Lines 919-949: the TOTALS row, a SUM for each of sum_columns.
TotalsRow(rows, records, roles) ==
    LET first == data_start_row
        last == last_data_row(records)
    IN  [row |-> last + 1,
         weekly_hrs |-> SumColumn([i \in DOMAIN rows |-> rows[i].weekly_hrs], first, last),
         total_hrs |-> SumColumn([i \in DOMAIN rows |-> rows[i].total_hrs], first, last),
         fixed_hrs |-> SumColumn([i \in DOMAIN rows |-> rows[i].fixed_hrs], first, last),
         hours |-> SumColumn([i \in DOMAIN rows |-> rows[i].hours], first, last),
         custom |-> [r \in DOMAIN roles |->
                        SumColumn([i \in DOMAIN rows |-> rows[i].custom[r].hours], first, last)],
         on_call_hrs |-> SumColumn([i \in DOMAIN rows |-> rows[i].on_call_hrs], first, last),
         on_call_shifts |-> SumColumn([i \in DOMAIN rows |-> rows[i].on_call_shifts], first, last),
         overtime_hrs |-> SumColumn([i \in DOMAIN rows |-> rows[i].overtime_hrs], first, last),
         holiday_days |-> SumColumn([i \in DOMAIN rows |-> rows[i].holiday_days], first, last),
         holiday_hrs |-> SumColumn([i \in DOMAIN rows |-> rows[i].holiday_hrs], first, last),
         sickness_days |-> SumColumn([i \in DOMAIN rows |-> rows[i].sickness_days], first, last),
         total_pay |-> SumColumn([i \in DOMAIN rows |-> rows[i].total_pay], first, last)]

\* Line 1191: create_payroll_excel on the sorted records.
Excel ==
    /\ pc = "excel"
    /\ LET rows == [i \in DOMAIN payroll_data |->
                       SheetRow(payroll_data[i], overtime_rate, all_custom_roles)]
       IN  /\ sheet_rows' = rows
           /\ totals_row' = TotalsRow(rows, payroll_data, all_custom_roles)
    /\ pc' = "done"
    /\ UNCHANGED <<sessionVars, messages, requests, loopVars, runVars, profileVars,
                   shiftVars, onCallVars, leaveVars, payroll_data, preview_rows>>

\* ------------------------------------------------------------ script run
\* Mutant of ResetLocals: the record list of the run before is kept.
ResetLocalsKeepingRecords ==
    /\ rate_1' = 0
    /\ fixed_hours' = 0
    /\ shifts_json' = NoResponse
    /\ total_seconds' = 0
    /\ base_rate_seconds' = 0
    /\ role_hours' = EmptyDict
    /\ total_hours' = 0
    /\ base_rate_hours' = 0
    /\ custom_role_hours' = EmptyDict
    /\ on_call_shifts' = <<>>
    /\ role_id_to_name' = EmptyDict
    /\ all_custom_roles' = EmptyDict
    /\ attendance_data' = NoResponse
    /\ on_call_hours' = 0
    /\ on_call_shift_count' = 0
    /\ leave_json' = NoResponse
    /\ holiday_days' = 0
    /\ holiday_hours' = 0
    /\ sickness_days' = 0
    /\ payroll_data' = payroll_data
    /\ preview_rows' = <<>>
    /\ sheet_rows' = <<>>
    /\ totals_row' = NoTotals

\* Streamlit runs the script from its first line at every widget event; the
\* locals and the elements shown by the run before are gone.
ResetLocals ==
    /\ rate_1' = 0
    /\ fixed_hours' = 0
    /\ shifts_json' = NoResponse
    /\ total_seconds' = 0
    /\ base_rate_seconds' = 0
    /\ role_hours' = EmptyDict
    /\ total_hours' = 0
    /\ base_rate_hours' = 0
    /\ custom_role_hours' = EmptyDict
    /\ on_call_shifts' = <<>>
    /\ role_id_to_name' = EmptyDict
    /\ all_custom_roles' = EmptyDict
    /\ attendance_data' = NoResponse
    /\ on_call_hours' = 0
    /\ on_call_shift_count' = 0
    /\ leave_json' = NoResponse
    /\ holiday_days' = 0
    /\ holiday_hours' = 0
    /\ sickness_days' = 0
    /\ payroll_data' = <<>>
    /\ preview_rows' = <<>>
    /\ sheet_rows' = <<>>
    /\ totals_row' = NoTotals

\* No user reached by the main loop.
NoUser ==
    [id |-> None, name |-> "", salary_type |-> "", salary |-> None,
     weekly_hours |-> None, role_rates |-> EmptyDict]

\* Line 995: users_to_process.
UsersToProcess(all_users, ignored) ==
    SelectSeq(all_users, LAMBDA u : u.id \notin ignored)

\* The st.error of lines 34, 47 and 202.
ConfigMessages(period, key) ==
    IF period = NoPeriod THEN {<<"error", "Invalid date for period", None>>}
    ELSE IF key = "" THEN {<<"error", "API Key Required", None>>}
    ELSE {}

\* The script, lines 105-1211, up to the first user of the main loop: the
\* period of the session state, st.stop() on a period without dates (line
\* 155) or without API key (line 204), and, when Generate Payroll Export
\* started the run, the connection test and the users request.
RunScript(generate, year, month, key_input, UserResponses, Connections) ==
    LET period == get_monthly_payroll_period(year, month)
        key == ResolveApiKey(key_input, env_api_key)
        Ends(at, shown, asked) ==
            /\ pc' = at
            /\ messages' = shown
            /\ requests' = asked
            /\ user' = NoUser
            /\ pending' = <<>>
            /\ pay_details' = get_user_pay_details(NoUser)
    IN  /\ start_date' = period[1]
        /\ end_date' = period[2]
        /\ period_days' = IF period = NoPeriod THEN 0
                          ELSE calculate_period_days(period[1], period[2])
        /\ ResetLocals
        /\ IF ScriptStops(period[1], period[2], key)
           THEN Ends("stopped", ConfigMessages(period, key), {})
           ELSE IF ~generate
           THEN Ends("idle", {}, {})
           ELSE \E connected \in Connections, resp \in UserResponses :
                  IF ~connected
                  THEN Ends("stopped", {<<"error", "API Connection Failed", None>>},
                            {UsersRequest})
                  ELSE IF ~resp.ok
                  THEN Ends("stopped", {<<"error", "Failed to fetch user data", None>>},
                            {UsersRequest})
                  ELSE LET users_to_process ==
                               UsersToProcess(resp.json, ignored_user_ids)
                       IN  IF users_to_process = <<>>
                           THEN Ends("preview", {}, {UsersRequest})
                           ELSE /\ pc' = "shifts"
                                /\ messages' = {}
                                /\ requests' = {UsersRequest}
                                /\ user' = Head(users_to_process)
                                /\ pending' = Tail(users_to_process)
                                /\ pay_details' =
                                       get_user_pay_details(Head(users_to_process))

\* The script has ended and the page waits for a widget event.
Resting == {"idle", "stopped", "done"}

\* The number of widget events of a session the model follows.
MaxClicks == 3

\* A widget event: the widget, the new session state and sidebar input, and
\* the script run that follows.
WidgetEvent(widget, year, month, key_input, UserResponses, Connections) ==
    /\ pc \in Resting
    /\ clicks < MaxClicks
    /\ clicks' = clicks + 1
    /\ clicked' = widget
    /\ payroll_period_year' = year
    /\ payroll_period_month' = month
    /\ api_key_input' = key_input
    /\ RunScript(widget = "generate", year, month, key_input, UserResponses, Connections)
    /\ UNCHANGED <<today, env_api_key, ignored_user_ids, overtime_rate>>

\* Lines 120-129: the Previous button and st.rerun().
ClickPrevious ==
    LET to == PreviousPeriod(payroll_period_year, payroll_period_month)
    IN  /\ WidgetEvent("previous", to[1], to[2], api_key_input, {NoResponse}, {TRUE})
        /\ UNCHANGED <<default_start, default_end>>

\* Lines 131-137: the Default button and st.rerun().
ClickDefault ==
    LET default == get_default_payroll_period(today)
        to == IF default[1] # NoDate
              THEN <<default[1][1], default[1][2]>>
              ELSE <<payroll_period_year, payroll_period_month>>
    IN  /\ WidgetEvent("default", to[1], to[2], api_key_input, {NoResponse}, {TRUE})
        /\ default_start' = default[1]
        /\ default_end' = default[2]

\* Lines 139-146: the Next button and st.rerun().
ClickNext ==
    LET to == NextPeriod(payroll_period_year, payroll_period_month)
    IN  /\ WidgetEvent("next", to[1], to[2], api_key_input, {NoResponse}, {TRUE})
        /\ UNCHANGED <<default_start, default_end>>

\* Lines 158-162: the API key typed in the sidebar; the input is drawn only
\* when the script got past line 155.
EditApiKey(Keys) ==
    /\ start_date # NoDate
    /\ \E key_input \in Keys \ {api_key_input} :
         WidgetEvent("api_key", payroll_period_year, payroll_period_month, key_input,
                     {NoResponse}, {TRUE})
    /\ UNCHANGED <<default_start, default_end>>

\* Line 186 and lines 957-1008: the Generate Payroll Export button, drawn
\* only when the script got past line 155.
ClickGenerate(UserResponses, Connections) ==
    /\ start_date # NoDate
    /\ WidgetEvent("generate", payroll_period_year, payroll_period_month,
                   api_key_input, UserResponses, Connections)
    /\ UNCHANGED <<default_start, default_end>>

\* ---------------------------------------------------------------- inputs
\* Bounds of the model.
MaxShifts == 2

MaxAttendance == 2

MaxLeave == 2

MaxPeriodDays == 31

\* The sequences of length at most n over the set S.
SeqsUpTo(S, n) == UNION {[1..k -> S] : k \in 0..n}

\* GET users entries. Salaries are in pence, weekly hours in hundredths.
HourlyUser ==
    [id |-> 1, name |-> "Ann Lee", salary_type |-> "hourly", salary |-> 1400,
     weekly_hours |-> 4000, role_rates |-> (2 :> 1500)]

SalariedUser ==
    [id |-> 2, name |-> "bob Ray", salary_type |-> "annual", salary |-> 3000000,
     weekly_hours |-> 3750, role_rates |-> EmptyDict]

\* A zero-hours contract, an override rate for the on-call role and a role
\* rate without per_hour.
ZeroHoursUser ==
    [id |-> 3, name |-> "Cy Poe", salary_type |-> "hourly", salary |-> 1221,
     weekly_hours |-> None, role_rates |-> (1 :> 2000) @@ (2 :> None) @@ (3 :> 1800)]

Users == {HourlyUser, SalariedUser, ZeroHoursUser}

\* Paid the minimum wage, contracted for no hours.
MinimumWageUser ==
    [id |-> 4, name |-> "Dee Fox", salary_type |-> "hourly", salary |-> UK_MINIMUM_WAGE,
     weekly_hours |-> 0, role_rates |-> EmptyDict]

\* GET shifts answers: the shift at position i has id i.
WithIds(kinds) ==
    [i \in DOMAIN kinds |->
        [id |-> i, start_time |-> kinds[i].start_time, end_time |-> kinds[i].end_time,
         minutes_break |-> kinds[i].minutes_break, role |-> kinds[i].role]]

ShiftResponses(Kinds) ==
    {NoResponse} \cup {Response(WithIds(k)) : k \in SeqsUpTo(Kinds, MaxShifts)}

\* Ten minutes or one hour of work, with or without a break, or a shift with
\* a timestamp missing; any role, or none.
RichShiftKinds ==
    [start_time : {36000}, end_time : {36600, 39600}, minutes_break : {None, 10},
     role : RoleIds \cup {None}]
    \cup [start_time : {None}, end_time : {39600}, minutes_break : {0}, role : {1, 2}]
    \cup [start_time : {36000}, end_time : {None}, minutes_break : {0}, role : {1, None}]

\* One hour in the on-call role, in a role with an override or without a
\* role, an on-call shift without end, and a break longer than the shift.
SmallShiftKinds ==
    [start_time : {36000}, end_time : {39600}, minutes_break : {0}, role : {1, 2, None}]
    \cup [start_time : {36000}, end_time : {None}, minutes_break : {0}, role : {1}]
    \cup [start_time : {36000}, end_time : {36600}, minutes_break : {15}, role : {None}]

OnCallShiftKinds ==
    [start_time : {36000}, end_time : {39600}, minutes_break : {0}, role : {1}]

NoShiftResponses == {NoResponse, Response(<<>>)}

\* The role-name requests that fail during one classification.
FailedSets == {{}, {1}}

\* role_id_to_name as earlier users of the run may have left it.
NameCaches == {EmptyDict, (1 :> "On-Call")}

\* GET attendance answers. shift is an id of the period's shifts or missing;
\* in_time and out_time make 10 minutes, 1 hour, 13 hours, a clock-out before
\* the clock-in, equal times, or lack one of the two.
AttendanceResponses(Kinds) ==
    {NoResponse} \cup {Response(a) : a \in SeqsUpTo(Kinds, MaxAttendance)}

RichAttendanceKinds ==
    {[shift |-> s, in_time |-> t[1], out_time |-> t[2], deleted |-> FALSE] :
        s \in {None, 1, 2},
        t \in {<<36000, 36600>>, <<36000, 39600>>, <<36000, 82800>>,
               <<39600, 36000>>, <<36000, 36000>>, <<None, 39600>>, <<36000, None>>}}
    \cup {[shift |-> 1, in_time |-> 36000, out_time |-> 39600, deleted |-> TRUE],
          [shift |-> 2, in_time |-> 36000, out_time |-> 36600, deleted |-> TRUE]}

SmallAttendanceResponses ==
    LET a1 == [shift |-> 1, in_time |-> 36000, out_time |-> 39600, deleted |-> FALSE]
        a2 == [shift |-> 2, in_time |-> 36000, out_time |-> 36600, deleted |-> FALSE]
    IN  {NoResponse, Response(<<>>), Response(<<a1>>), Response(<<a2>>),
         Response(<<a1, a2>>), Response(<<[a1 EXCEPT !.deleted = TRUE]>>)}

\* GET leave answers. days and hours are in thousandths.
LeaveResponses(Kinds) ==
    {NoResponse} \cup {Response(l) : l \in SeqsUpTo(Kinds, MaxLeave)}

LeaveEntryOn(date) == [date |-> date, days |-> 1000, hours |-> 7500]

\* The date lists of a leave record, for the period start_date..end_date:
\* the day before the period, its first and last day, the day after, a date
\* that is no calendar date, an entry without a date, an entry without days
\* and hours, a half day, and a record of two entries.
LeaveDateLists(start, end) ==
    {<<LeaveEntryOn(<<start[1], start[2], 10>>)>>,
     <<LeaveEntryOn(start)>>,
     <<LeaveEntryOn(end)>>,
     <<LeaveEntryOn(<<end[1], end[2], 11>>)>>,
     <<LeaveEntryOn(<<start[1], start[2], 32>>)>>,
     <<LeaveEntryOn(<<>>)>>,
     <<[date |-> start, days |-> None, hours |-> None]>>,
     <<[date |-> end, days |-> 500, hours |-> 3333]>>,
     <<LeaveEntryOn(start), LeaveEntryOn(<<end[1], end[2], 11>>)>>}

RichLeaveKinds(start, end) ==
    {[status |-> "approved", type |-> t, dates |-> d] :
        t \in {1, 3}, d \in LeaveDateLists(start, end)}
    \cup {[status |-> k[1], type |-> k[2], dates |-> <<LeaveEntryOn(start)>>] :
            k \in {<<"approved", 2>>, <<"requested", 1>>, <<"denied", 3>>}}

SmallLeaveResponses(start) ==
    {NoResponse, Response(<<>>),
     Response(<<[status |-> "approved", type |-> 1, dates |-> <<LeaveEntryOn(start)>>]>>),
     Response(<<[status |-> "approved", type |-> 3, dates |-> <<LeaveEntryOn(start)>>]>>),
     Response(<<[status |-> "requested", type |-> 1, dates |-> <<LeaveEntryOn(start)>>]>>)}

\* ------------------------------------------------------- specifications
\* The state when the main loop reaches a user: the period of the session
\* state, the overtime rate of the sidebar, the dicts of the run.
InitPeriod(PeriodSet) ==
    \E p \in PeriodSet :
       LET period == get_monthly_payroll_period(p[1], p[2])
       IN  /\ payroll_period_year = p[1]
           /\ payroll_period_month = p[2]
           /\ start_date = period[1]
           /\ end_date = period[2]
           /\ period_days = calculate_period_days(period[1], period[2])

\* The session in the run that Generate Payroll Export started: a key in the
\* sidebar, nobody ignored, the users fetched, the last of them reached.
InitInRun ==
    /\ today = <<2025, 3, 15>>
    /\ default_start = get_default_payroll_period(today)[1]
    /\ default_end = get_default_payroll_period(today)[2]
    /\ api_key_input = "key"
    /\ env_api_key = ""
    /\ ignored_user_ids = {}
    /\ clicked = "generate"
    /\ clicks = 1
    /\ messages = {}
    /\ requests = {UsersRequest}
    /\ pending = <<>>

\* Nothing requested and nothing computed yet.
InitLocals ==
    /\ rate_1 = 0
    /\ fixed_hours = 0
    /\ shifts_json = NoResponse
    /\ total_seconds = 0
    /\ base_rate_seconds = 0
    /\ role_hours = EmptyDict
    /\ total_hours = 0
    /\ base_rate_hours = 0
    /\ custom_role_hours = EmptyDict
    /\ on_call_shifts = <<>>
    /\ all_custom_roles = EmptyDict
    /\ attendance_data = NoResponse
    /\ on_call_hours = 0
    /\ on_call_shift_count = 0
    /\ leave_json = NoResponse
    /\ holiday_days = 0
    /\ holiday_hours = 0
    /\ sickness_days = 0
    /\ payroll_data = <<>>
    /\ preview_rows = <<>>
    /\ sheet_rows = <<>>
    /\ totals_row = NoTotals

InitWith(UserSet, PeriodSet, RateSet, CacheSet) ==
    /\ pc = "shifts"
    /\ InitInRun
    /\ user \in UserSet
    /\ InitPeriod(PeriodSet)
    /\ overtime_rate \in RateSet
    /\ pay_details = get_user_pay_details(user)
    /\ role_id_to_name \in CacheSet
    /\ InitLocals

\* The run for one user, from the shifts request to the worksheet.
Init == InitWith(Users, {<<2025, 1>>}, {UK_MINIMUM_WAGE}, NameCaches)

Next ==
    \/ ProcessUserShifts(ShiftResponses(SmallShiftKinds), FailedSets)
    \/ ProcessUserAttendance(SmallAttendanceResponses)
    \/ ProcessUserLeave(SmallLeaveResponses(start_date))
    \/ Preview
    \/ Excel

Spec == Init /\ [][Next]_vars

\* The hour classifier on every shift list.
InitClassify ==
    InitWith({HourlyUser, ZeroHoursUser}, {<<2025, 1>>}, {UK_MINIMUM_WAGE}, NameCaches)

NextClassify == ProcessUserShifts(ShiftResponses(RichShiftKinds), FailedSets)

SpecClassify == InitClassify /\ [][NextClassify]_vars

\* The on-call reconciler on every attendance list, for 0..MaxShifts on-call
\* shifts.
InitOnCall == InitWith({HourlyUser}, {<<2025, 1>>}, {UK_MINIMUM_WAGE}, {EmptyDict})

NextOnCall ==
    \/ ProcessUserShifts(ShiftResponses(OnCallShiftKinds), {{}})
    \/ ProcessUserAttendance(AttendanceResponses(RichAttendanceKinds))

SpecOnCall == InitOnCall /\ [][NextOnCall]_vars

\* The leave aggregator on every leave list, for two periods.
InitLeave ==
    InitWith({HourlyUser}, {<<2025, 1>>, <<2024, 12>>}, {UK_MINIMUM_WAGE}, {EmptyDict})

NextLeave ==
    \/ ProcessUserShifts(NoShiftResponses, {{}})
    \/ ProcessUserAttendance({NoResponse})
    \/ ProcessUserLeave(LeaveResponses(RichLeaveKinds(start_date, end_date)))

SpecLeave == InitLeave /\ [][NextLeave]_vars

\* Fixed-hours proration on every weekly_hours, a negative one included, and
\* every period length up to MaxPeriodDays, a negative one included (the
\* periods the sidebar can select have 28 to 31 days).
WeeklyHoursSet == {None, 0 - 500, 0, 1600, 2000, 3725, 3750, 4000}

InitFixed ==
    /\ pc = "shifts"
    /\ InitInRun
    /\ payroll_period_year = 2025
    /\ payroll_period_month = 1
    /\ user \in {[u EXCEPT !.weekly_hours = w] :
                    u \in {HourlyUser, SalariedUser}, w \in WeeklyHoursSet}
    /\ start_date = <<2025, 1, 11>>
    /\ end_date = <<2025, 2, 10>>
    /\ period_days \in {0 - 3} \cup 0..MaxPeriodDays
    /\ overtime_rate = UK_MINIMUM_WAGE
    /\ pay_details = get_user_pay_details(user)
    /\ role_id_to_name = EmptyDict
    /\ InitLocals

NextFixed == ProcessUserShifts(NoShiftResponses, {{}})

SpecFixed == InitFixed /\ [][NextFixed]_vars

\* The pay calculation on the records the main loop can append: the locals
\* of the loop are drawn (the raw answers behind them are not kept), the
\* record is built from them as the loop builds it.
CustomHoursSet(details) ==
    {EmptyDict}
    \cup {(r :> [hours |-> 1000, rate |-> details.role_rates[r], name |-> ApiRoleName(r)]) :
            r \in DOMAIN details.role_rates \ {1}}

InitPay ==
    /\ pc = "preview"
    /\ InitInRun
    /\ user \in Users
    /\ InitPeriod({<<2025, 1>>, <<2025, 2>>})
    /\ overtime_rate \in {UK_MINIMUM_WAGE, 1500}
    /\ pay_details = get_user_pay_details(user)
    /\ rate_1 = Rate1(pay_details)
    /\ fixed_hours = calculate_fixed_hours(pay_details.standard_weekly_hours, period_days)
    /\ shifts_json = NoResponse
    /\ total_seconds = 0
    /\ base_rate_seconds = 0
    /\ role_hours = EmptyDict
    /\ base_rate_hours \in {0 - 8, 0, 750, 18000}
    /\ custom_role_hours \in CustomHoursSet(pay_details)
    /\ total_hours = base_rate_hours
                     + SetSum([r \in DOMAIN custom_role_hours |-> custom_role_hours[r].hours],
                              DOMAIN custom_role_hours)
    /\ on_call_shifts = <<>>
    /\ role_id_to_name = EmptyDict
    /\ all_custom_roles = [r \in DOMAIN custom_role_hours |-> custom_role_hours[r].name]
    /\ attendance_data = NoResponse
    /\ \E oc \in {<<0, 0>>, <<0, 2>>, <<450, 1>>, <<2000, 10>>} :
         /\ on_call_hours = oc[1]
         /\ on_call_shift_count = oc[2]
    /\ leave_json = NoResponse
    /\ \E h \in {<<0, 0>>, <<100, 750>>} :
         /\ holiday_days = h[1]
         /\ holiday_hours = h[2]
    /\ sickness_days \in {0, 200}
    /\ payroll_data =
           IF IncludeUser(total_hours, holiday_hours, holiday_days, sickness_days,
                          on_call_hours)
           THEN <<PayrollRecord([holiday_days |-> holiday_days,
                                 holiday_hours |-> holiday_hours,
                                 sickness_days |-> sickness_days])>>
           ELSE <<>>
    /\ preview_rows = <<>>
    /\ sheet_rows = <<>>
    /\ totals_row = NoTotals

NextPay ==
    \/ Preview
    \/ Excel

SpecPay == InitPay /\ [][NextPay]_vars

\* The session: the page opened on one of Todays, with the period lines 90-97
\* store or a period many clicks away, at the two ends of the years a date
\* can have; then up to MaxClicks widget events, and the run for users with
\* one answer to each request.
Todays ==
    {<<2024, 3, 15>>, <<2024, 12, 31>>, <<2025, 1, 5>>, <<2025, 1, 10>>,
     <<2025, 1, 11>>, <<2025, 3, 9>>, <<2025, 3, 31>>}

FarSessions == {<<MINYEAR, 1>>, <<MAXYEAR, 12>>}

ApiKeyInputs == {"", " ", "key"}

\* GET leave answer: one approved day of holiday.
HolidayResponse(date) ==
    Response(<<[status |-> "approved", type |-> 1, dates |-> <<LeaveEntryOn(date)>>]>>)

SessionUserResponses == {NoResponse, Response(<<HourlyUser, SalariedUser>>)}

InitSession ==
    /\ today \in Todays
    /\ LET current == get_default_payroll_period(today)
           stored == IF current[1] # NoDate
                     THEN <<current[1][1], current[1][2]>>
                     ELSE <<today[1], today[2]>>
       IN  /\ default_start = current[1]
           /\ default_end = current[2]
           /\ \E session \in {stored} \cup FarSessions :
                /\ payroll_period_year = session[1]
                /\ payroll_period_month = session[2]
    /\ api_key_input = ""
    /\ env_api_key \in {"", "envkey"}
    /\ ignored_user_ids \in {{}, {2}}
    /\ clicked = "none"
    /\ clicks = 0
    /\ LET period == get_monthly_payroll_period(payroll_period_year,
                                                payroll_period_month)
           key == ResolveApiKey(api_key_input, env_api_key)
       IN  /\ start_date = period[1]
           /\ end_date = period[2]
           /\ period_days = IF period = NoPeriod THEN 0
                            ELSE calculate_period_days(period[1], period[2])
           /\ pc = IF ScriptStops(period[1], period[2], key) THEN "stopped" ELSE "idle"
           /\ messages = ConfigMessages(period, key)
    /\ requests = {}
    /\ user = NoUser
    /\ pending = <<>>
    /\ overtime_rate = UK_MINIMUM_WAGE
    /\ pay_details = get_user_pay_details(NoUser)
    /\ role_id_to_name = EmptyDict
    /\ InitLocals

NextSession ==
    \/ ClickPrevious
    \/ ClickDefault
    \/ ClickNext
    \/ EditApiKey(ApiKeyInputs)
    \/ ClickGenerate(SessionUserResponses, BOOLEAN)
    \/ ProcessUserShifts({Response(<<>>)}, {{}})
    \/ ProcessUserAttendance({NoResponse})
    \/ ProcessUserLeave({Response(<<>>), HolidayResponse(start_date)})
    \/ Preview
    \/ Excel

SpecSession == InitSession /\ [][NextSession]_vars

\* The sort and the rendering on every list of at most MaxRecords records,
\* hourly or salaried, of the four names, a name twice included.
MaxRecords == 3

\* A record of payroll_data for an employee with one hour of work and the
\* contract of HourlyUser or SalariedUser.
RecordOf(name, pay_type) ==
    [employee_name |-> name,
     pay_type |-> pay_type,
     annual_salary |-> IF pay_type = "annual" THEN SalariedUser.salary ELSE 0,
     hourly_rate |-> IF pay_type = "annual" THEN 0 ELSE HourlyUser.salary,
     weekly_hours |-> 4000,
     total_hours |-> 100,
     total_hours_display |-> 100,
     fixed_hours |-> calculate_fixed_hours(4000, 31),
     rate_1 |-> IF pay_type = "annual" THEN 0 ELSE HourlyUser.salary,
     base_rate_hours |-> 100,
     custom_role_hours |-> EmptyDict,
     on_call_hours |-> 0,
     on_call_shift_count |-> 0,
     holiday_days |-> 0,
     holiday_hours |-> 0,
     sickness_days |-> 0]

SortRecords ==
    {RecordOf(name, pay_type) :
        name \in {"Ann Lee", "bob Ray", "Cy Poe", "Dee Fox"},
        pay_type \in {"annual", "hourly"}}

InitSort ==
    /\ pc = "preview"
    /\ InitInRun
    /\ user = MinimumWageUser
    /\ InitPeriod({<<2025, 1>>})
    /\ overtime_rate = UK_MINIMUM_WAGE
    /\ pay_details = get_user_pay_details(user)
    /\ role_id_to_name = EmptyDict
    /\ rate_1 = 0
    /\ fixed_hours = 0
    /\ shifts_json = NoResponse
    /\ total_seconds = 0
    /\ base_rate_seconds = 0
    /\ role_hours = EmptyDict
    /\ total_hours = 0
    /\ base_rate_hours = 0
    /\ custom_role_hours = EmptyDict
    /\ on_call_shifts = <<>>
    /\ all_custom_roles = EmptyDict
    /\ attendance_data = NoResponse
    /\ on_call_hours = 0
    /\ on_call_shift_count = 0
    /\ leave_json = NoResponse
    /\ holiday_days = 0
    /\ holiday_hours = 0
    /\ sickness_days = 0
    /\ payroll_data \in SeqsUpTo(SortRecords, MaxRecords)
    /\ preview_rows = <<>>
    /\ sheet_rows = <<>>
    /\ totals_row = NoTotals

NextSort ==
    \/ Preview
    \/ Excel

SpecSort == InitSort /\ [][NextSort]_vars

\* The main loop over several users: users_to_process is one of RunUserLists,
\* each request of each user has one of a few answers, a failed one included.
RunUserLists ==
    {<<HourlyUser, SalariedUser, ZeroHoursUser>>,
     <<ZeroHoursUser, MinimumWageUser>>,
     <<SalariedUser>>}

\* GET shifts answers: a failure, no shift, ten minutes without a role, a
\* shift in role 2 without end, an hour in role 2 and an hour in role 3, an
\* hour on call and an hour in role 3.
RunShiftResponses ==
    LET shift(end, role) ==
            [start_time |-> 36000, end_time |-> end, minutes_break |-> 0, role |-> role]
    IN  {NoResponse, Response(<<>>),
         Response(WithIds(<<shift(36600, None)>>)),
         Response(WithIds(<<shift(None, 2)>>)),
         Response(WithIds(<<shift(39600, 2), shift(39600, 3)>>)),
         Response(WithIds(<<shift(39600, 1), shift(39600, 3)>>))}

\* GET attendance answers: a failure, an hour on shift 1, a clock-out before
\* the clock-in on shift 1.
RunAttendanceResponses ==
    {NoResponse,
     Response(<<[shift |-> 1, in_time |-> 36000, out_time |-> 39600, deleted |-> FALSE]>>),
     Response(<<[shift |-> 1, in_time |-> 39600, out_time |-> 36000, deleted |-> FALSE]>>)}

\* GET leave answers: a failure, no leave, a day of holiday on the first day
\* of the period, a day of holiday on a date that is no calendar date.
RunLeaveResponses(start) ==
    {NoResponse, Response(<<>>), HolidayResponse(start),
     HolidayResponse(<<start[1], start[2], 32>>)}

InitRun ==
    /\ pc = "shifts"
    /\ today = <<2025, 3, 15>>
    /\ default_start = get_default_payroll_period(today)[1]
    /\ default_end = get_default_payroll_period(today)[2]
    /\ api_key_input = "key"
    /\ env_api_key = ""
    /\ ignored_user_ids = {}
    /\ clicked = "generate"
    /\ clicks = 1
    /\ messages = {}
    /\ requests = {UsersRequest}
    /\ \E users_to_process \in RunUserLists :
         /\ user = Head(users_to_process)
         /\ pending = Tail(users_to_process)
    /\ InitPeriod({<<2025, 1>>})
    /\ overtime_rate \in {UK_MINIMUM_WAGE, 1500}
    /\ pay_details = get_user_pay_details(NoUser)
    /\ role_id_to_name = EmptyDict
    /\ InitLocals

NextRun ==
    \/ ProcessUserShifts(RunShiftResponses, FailedSets)
    \/ ProcessUserAttendance(RunAttendanceResponses)
    \/ ProcessUserLeave(RunLeaveResponses(start_date))
    \/ Preview
    \/ Excel

SpecRun == InitRun /\ [][NextRun]_vars

\* ----------------------------------------------------------------- claims
\* What the claims speak of, read off the state.
ShiftList == IF shifts_json.ok THEN shifts_json.json ELSE <<>>

AttendanceList == IF attendance_data.ok THEN attendance_data.json ELSE <<>>

LeaveList == IF leave_json.ok THEN leave_json.json ELSE <<>>

\* The shifts with both a start and an end timestamp.
TimedShifts ==
    {i \in DOMAIN ShiftList :
        ShiftList[i].start_time # None /\ ShiftList[i].end_time # None}

\* The shifts whose resolved role name is "On-Call".
OnCallNamed ==
    {i \in DOMAIN ShiftList : role_id_to_name[ShiftList[i].role] = "On-Call"}

HasOverride(i) == ShiftList[i].role \in DOMAIN pay_details.role_rates

\* end - start less the break, in seconds.
NetSecondsOf(i) ==
    (ShiftList[i].end_time - ShiftList[i].start_time)
    - 60 * (IF ShiftList[i].minutes_break = None THEN 0 ELSE ShiftList[i].minutes_break)

CustomShiftsOf(r) ==
    {i \in (TimedShifts \ OnCallNamed) : ShiftList[i].role = r /\ HasOverride(i)}

BaseShifts == {i \in (TimedShifts \ OnCallNamed) : ~HasOverride(i)}

SumOver(S, F(_)) == SetSum([i \in S |-> F(i)], S)

AfterLeave == pc \in {"preview", "excel", "done"}

\* h is x/d rounded to the nearest integer.
IsNearest(h, x, d) == 2 * (d * h - x) <= d /\ 2 * (x - d * h) <= d

\* The pay of an hourly record as the claim C1 states it.
ClaimedHoursAtBase(data) ==
    Min(data.total_hours_display - data.on_call_hours,
        data.fixed_hours - data.on_call_hours)

ClaimedOvertime(data) == Max(0, data.total_hours_display - data.fixed_hours)

ClaimedHourlyPay(data, rate_2) ==
    PayOfHours(ClaimedHoursAtBase(data), data.rate_1)
    + SetSum([r \in DOMAIN data.custom_role_hours |->
                 PayOfHours(data.custom_role_hours[r].hours,
                            data.custom_role_hours[r].rate)],
             DOMAIN data.custom_role_hours)
    + PayOfHours(data.on_call_hours, data.rate_1)
    + PayOfPence(data.on_call_shift_count * 1500)
    + PayOfHours(ClaimedOvertime(data), rate_2)
    + PayOfHours(data.holiday_hours, data.rate_1)

\* Rate 14, fixed hours 160, 200 hours displayed of which 20 on call, 10
\* assigned on-call shifts, overtime rate 12.21, no custom role, no holiday.
IsWorkedExample(data) ==
    /\ data.pay_type = "hourly"
    /\ data.rate_1 = 1400
    /\ data.fixed_hours = 16000
    /\ data.total_hours_display = 20000
    /\ data.on_call_hours = 2000
    /\ data.on_call_shift_count = 10
    /\ data.custom_role_hours = EmptyDict
    /\ data.holiday_hours = 0
    /\ overtime_rate = 1221

\* C1: the total pay of every hourly record is hours_at_base*rate_1 + the sum
\* of its custom roles' hours*rate + on-call hours*rate_1 + assigned on-call
\* shifts*15.00 + overtime hours*overtime rate + holiday hours*rate_1, a sum in
\* which sickness days do not occur; the worked example gives 2878.40.
C1_HourlyTotalPay ==
    \A i \in DOMAIN preview_rows :
        payroll_data[i].pay_type = "hourly" =>
            /\ preview_rows[i].total_pay = ClaimedHourlyPay(payroll_data[i], overtime_rate)
            /\ IsWorkedExample(payroll_data[i]) =>
                   /\ preview_rows[i].total_pay = PayOfPence(287840)
                   /\ preview_rows[i].total_pay_rounded = 287840

C1_Witness ==
    \E i \in DOMAIN preview_rows :
        /\ IsWorkedExample(payroll_data[i])
        /\ payroll_data[i].sickness_days > 0
        /\ preview_rows[i].hours_worked = 14000
        /\ preview_rows[i].overtime_hrs = 4000
        /\ preview_rows[i].total_pay = PayOfPence(287840)

\* C2: in every record total_hours_display is the non-on-call hours plus the
\* on-call hours, hours_at_base is min(total_hours_display - on-call hours,
\* fixed_hours - on-call hours), not clamped, so negative when the on-call
\* hours exceed the fixed hours, and overtime_hours is
\* max(0, total_hours_display - fixed_hours), never negative.
C2_HoursAtBaseAndOvertime ==
    \A i \in DOMAIN preview_rows :
        LET data == payroll_data[i]
            row == preview_rows[i]
        IN  /\ data.total_hours_display = data.total_hours + data.on_call_hours
            /\ row.hours_worked = ClaimedHoursAtBase(data)
            /\ row.overtime_hrs = ClaimedOvertime(data)
            /\ data.on_call_hours > data.fixed_hours => row.hours_worked < 0
            /\ row.overtime_hrs >= 0

C2_Witness ==
    \E i \in DOMAIN preview_rows :
        /\ payroll_data[i].on_call_hours > payroll_data[i].fixed_hours
        /\ payroll_data[i].total_hours > 0
        /\ preview_rows[i].hours_worked < 0
        /\ preview_rows[i].overtime_hrs > 0

\* C3: the total pay of every salaried record is annual_salary/12 (a salary in
\* pence times 100, in pay units), whatever its hour buckets, in the preview
\* and in the TOTAL PAY cell of the worksheet.
C3_SalariedMonthlyPay ==
    \A i \in DOMAIN preview_rows :
        payroll_data[i].pay_type = "annual" =>
            /\ preview_rows[i].total_pay = payroll_data[i].annual_salary * 100
            /\ pc = "done" =>
                   sheet_rows[i].total_pay = preview_rows[i].total_pay

C3_Witness ==
    /\ pc = "done"
    /\ \E i \in DOMAIN sheet_rows :
        /\ payroll_data[i].pay_type = "annual"
        /\ payroll_data[i].total_hours > payroll_data[i].fixed_hours
        /\ payroll_data[i].on_call_shift_count > 0
        /\ payroll_data[i].holiday_hours > 0
        /\ sheet_rows[i].total_pay = payroll_data[i].annual_salary * 100

\* C4: of the shifts with both timestamps, each goes to exactly one bucket: one
\* stub in the on-call list when its resolved role name is "On-Call", even if
\* the user has an override rate for that role, with nothing added to any
\* total; else its net seconds to its role's custom bucket when the user has
\* an override for the role; else its net seconds to the base bucket. The
\* total is the base seconds plus the seconds of all custom buckets.
C4_OneBucketPerShift ==
    pc = "attendance" =>
        /\ Len(on_call_shifts) = Cardinality(TimedShifts \cap OnCallNamed)
        /\ \A i \in TimedShifts \cap OnCallNamed :
               Cardinality({k \in DOMAIN on_call_shifts :
                                on_call_shifts[k].shift_id = ShiftList[i].id}) = 1
        /\ base_rate_seconds = SumOver(BaseShifts, NetSecondsOf)
        /\ DOMAIN role_hours = {r \in RoleIds : CustomShiftsOf(r) # {}}
        /\ \A r \in DOMAIN role_hours :
               role_hours[r].seconds = SumOver(CustomShiftsOf(r), NetSecondsOf)
        /\ total_seconds =
               base_rate_seconds
               + SetSum([r \in DOMAIN role_hours |-> role_hours[r].seconds],
                        DOMAIN role_hours)

C4_Witness ==
    /\ pc = "attendance"
    /\ \E i \in TimedShifts \cap OnCallNamed : HasOverride(i) /\ NetSecondsOf(i) > 0
    /\ BaseShifts \cup UNION {CustomShiftsOf(r) : r \in RoleIds} # {}
    /\ Len(on_call_shifts) = 1
    /\ total_seconds > 0

\* C5 as the specification states it: the number of assigned on-call shifts is
\* the number of shifts in the raw shift list whose resolved role name is
\* "On-Call", whatever the attendance data.
C5_CountOfRawShifts ==
    pc = "leave" => on_call_shift_count = Cardinality(OnCallNamed)

\* C5: the number of assigned on-call shifts is the number of shifts with both
\* a start and an end timestamp whose resolved role name is "On-Call"; it does
\* not depend on the attendance data.
C5_CountOfTimedShifts ==
    pc = "leave" => on_call_shift_count = Cardinality(TimedShifts \cap OnCallNamed)

C5_Witness ==
    /\ pc = "leave"
    /\ on_call_shift_count = 1
    /\ Cardinality(OnCallNamed) = 1
    /\ AttendanceList = <<>>
    /\ on_call_hours = 0

\* The attendance records that count: not deleted, of a shift of the on-call
\* list, with both timestamps and clocked out after clocked in.
CountedAttendance ==
    {k \in DOMAIN AttendanceList :
        /\ ~AttendanceList[k].deleted
        /\ \E j \in DOMAIN on_call_shifts :
               on_call_shifts[j].shift_id = AttendanceList[k].shift
        /\ AttendanceList[k].in_time # None
        /\ AttendanceList[k].out_time # None
        /\ AttendanceList[k].out_time > AttendanceList[k].in_time}

AttendedSecondsOf(k) == AttendanceList[k].out_time - AttendanceList[k].in_time

\* C6: the worked on-call hours are the sum of out_time - in_time over the
\* counted attendance records, divided by 3600 and rounded to two decimals
\* once, after the sum; a record that does not count adds nothing and the
\* records after it are still processed.
C6_WorkedOnCallHours ==
    pc = "leave" =>
        IsNearest(on_call_hours, 100 * SumOver(CountedAttendance, AttendedSecondsOf), 3600)

C6_Witness ==
    /\ pc = "leave"
    /\ Len(AttendanceList) = 2
    /\ 1 \notin CountedAttendance
    /\ AttendanceList[1].deleted
    /\ 2 \in CountedAttendance
    /\ on_call_hours > 1200

\* C7 as the specification states it: an hourly employee with an assigned
\* on-call shift in the period is in the output and is paid the flat rate for
\* the shift, worked or not.
C7_AssignedOnCallIsPaid ==
    /\ pc = "preview" /\ pay_details.pay_type = "hourly" /\ on_call_shift_count >= 1
           => payroll_data # <<>>
    /\ \A i \in DOMAIN preview_rows :
           payroll_data[i].pay_type = "hourly" /\ on_call_shift_count >= 1
               => preview_rows[i].total_pay
                      >= PayOfPence(on_call_shift_count * ON_CALL_FLAT_RATE)

\* C8: the employee is in the output exactly when the hours (on-call hours
\* included) are positive, or the holiday hours, or the holiday days, or the
\* sickness days, or the on-call hours.
C8_InclusionFilter ==
    AfterLeave =>
        (payroll_data # <<>>
            <=> \/ total_hours + on_call_hours > 0
                \/ holiday_hours > 0
                \/ holiday_days > 0
                \/ sickness_days > 0
                \/ on_call_hours > 0)

C8_Witness ==
    /\ pc = "preview"
    /\ Len(payroll_data) = 1
    /\ total_hours = 0
    /\ on_call_hours > 0
    /\ holiday_hours = 0 /\ holiday_days = 0 /\ sickness_days = 0

\* C9: for positive weekly hours and a positive number of days, the fixed
\* hours are (days div 7)*weekly + ((days mod 7)/7)*weekly, which is
\* weekly*days/7, rounded to two decimals, the partial week pro rata; 37.5
\* weekly hours over 31 days give 166.07.
C9_FixedHours ==
    LET weekly == pay_details.standard_weekly_hours
    IN  pc = "attendance" /\ weekly > 0 /\ period_days > 0 =>
            /\ IsNearest(fixed_hours,
                         7 * (period_days \div 7) * weekly + (period_days % 7) * weekly, 7)
            /\ IsNearest(fixed_hours, weekly * period_days, 7)
            /\ weekly = 3750 /\ period_days = 31 => fixed_hours = 16607

C9_Witness ==
    /\ pc = "attendance"
    /\ pay_details.standard_weekly_hours = 3750
    /\ period_days = 31
    /\ fixed_hours = 16607

\* The entries of the leave records that count: of an approved record, with a
\* date of the calendar, from the first to the last day of the period.
IsCalendarDate(d) ==
    /\ Len(d) = 3
    /\ d[2] \in 1..12
    /\ d[3] \in 1..DaysInMonth(d[1], d[2])

CountedLeave(leave_type) ==
    {e \in {<<k, j>> : k \in DOMAIN LeaveList, j \in 1..MaxLeave} :
        /\ e[2] \in DOMAIN LeaveList[e[1]].dates
        /\ LeaveList[e[1]].status = "approved"
        /\ LeaveList[e[1]].type = leave_type
        /\ IsCalendarDate(LeaveList[e[1]].dates[e[2]].date)
        /\ ToOrdinal(start_date) <= ToOrdinal(LeaveList[e[1]].dates[e[2]].date)
        /\ ToOrdinal(LeaveList[e[1]].dates[e[2]].date) <= ToOrdinal(end_date)}

LeaveDaysOf(e) == OrZero(LeaveList[e[1]].dates[e[2]].days)

LeaveHoursOf(e) == OrZero(LeaveList[e[1]].dates[e[2]].hours)

\* C10: only the entries of approved records with a parseable date from start
\* to end, both included, count; those of type 1 add their days and hours to
\* the holiday totals, those of type 3 their days to the sickness total; each
\* total is rounded to two decimals.
C10_LeaveTotals ==
    pc = "preview" =>
        /\ IsNearest(holiday_days, SumOver(CountedLeave(1), LeaveDaysOf), 10)
        /\ IsNearest(holiday_hours, SumOver(CountedLeave(1), LeaveHoursOf), 10)
        /\ IsNearest(sickness_days, SumOver(CountedLeave(3), LeaveDaysOf), 10)

C10_Witness ==
    /\ pc = "preview"
    /\ \E e \in CountedLeave(1) : LeaveList[e[1]].dates[e[2]].date = end_date
    /\ \E e \in CountedLeave(3) : LeaveList[e[1]].dates[e[2]].date = start_date
    /\ holiday_hours > 0
    /\ sickness_days > 0

\* C11: the fixed hours are 0 whenever the weekly hours or the days of the
\* period are not positive, and Rate 1 of a salaried employee whose weekly
\* hours are not positive is 0; the step ends for every weekly hours and every
\* number of days, with no negative result.
C11_ZeroOnEdgeCases ==
    LET weekly == pay_details.standard_weekly_hours
    IN  pc = "attendance" =>
            /\ weekly <= 0 \/ period_days <= 0 => fixed_hours = 0
            /\ pay_details.pay_type = "annual" /\ weekly <= 0 => rate_1 = 0
            /\ fixed_hours >= 0
            /\ rate_1 >= 0

C11_Witness ==
    /\ pc = "attendance"
    /\ pay_details.pay_type = "annual"
    /\ pay_details.standard_weekly_hours < 0
    /\ period_days = 31
    /\ fixed_hours = 0
    /\ rate_1 = 0

\* The months from year 0 to the stored period.
MonthIndex(year, month) == 12 * year + (month - 1)

\* C12: for a month in 1..12 of a year whose period has both its dates (the
\* years MINYEAR..MAXYEAR, less December of MAXYEAR), the period starts on
\* the 11th of that month and ends on the 10th of the next calendar month, in
\* the next year exactly when the month is December: the day before the 11th
\* of the next month.
C12_MonthlyPeriod ==
    LET year == payroll_period_year
        month == payroll_period_month
    IN  /\ month \in 1..12
        /\ year \in MINYEAR..MAXYEAR
        /\ ~(year = MAXYEAR /\ month = 12)
        => /\ start_date = <<year, month, 11>>
           /\ end_date[3] = 10
           /\ end_date[2] = (month % 12) + 1
           /\ end_date[1] = (IF month = 12 THEN year + 1 ELSE year)
           /\ ToOrdinal(end_date) = ToOrdinal(start_date) + DaysInMonth(year, month) - 1

C12_Witness ==
    /\ clicked = "previous"
    /\ payroll_period_month = 12
    /\ start_date = <<2024, 12, 11>>
    /\ end_date = <<2025, 1, 10>>
    /\ period_days = 31

\* C13 as the specification states it: the default period is the most
\* recently completed one: it has ended by today, and the period after it
\* has not.
C13_DefaultIsLastCompleted ==
    default_start # NoDate =>
        LET after == NextPeriod(default_start[1], default_start[2])
        IN  /\ ToOrdinal(default_end) <= ToOrdinal(today)
            /\ ToOrdinal(get_monthly_payroll_period(after[1], after[2])[2])
                   > ToOrdinal(today)

\* C14: whatever the day of today, the default period starts on the 11th of
\* the month before today's month (December of the year before, in January)
\* and ends on the 10th of today's month.
C14_DefaultIgnoresDay ==
    LET before == MonthIndex(today[1], today[2]) - 1
    IN  /\ default_start = <<before \div 12, (before % 12) + 1, 11>>
        /\ default_end = <<today[1], today[2], 10>>

C14_Witness ==
    /\ clicked = "default"
    /\ today = <<2025, 1, 5>>
    /\ default_start = <<2024, 12, 11>>
    /\ default_end = <<2025, 1, 10>>
    /\ payroll_period_year = 2024
    /\ payroll_period_month = 12

\* C15: the stored month is always in 1..12; a click on Next moves the stored
\* period one month forward and a click on Previous one month back, across
\* the end of the year, so that one after the other restores the period.
C15_Navigation ==
    /\ [](payroll_period_month \in 1..12)
    /\ [][/\ clicked' = "next" =>
                MonthIndex(payroll_period_year', payroll_period_month')
                    = MonthIndex(payroll_period_year, payroll_period_month) + 1
          /\ clicked' = "previous" =>
                MonthIndex(payroll_period_year', payroll_period_month')
                    = MonthIndex(payroll_period_year, payroll_period_month) - 1
          /\ clicked' \notin {"next", "previous", "default"} =>
                /\ payroll_period_year' = payroll_period_year
                /\ payroll_period_month' = payroll_period_month]_sessionVars

C15_Witness ==
    /\ clicked = "next"
    /\ clicks = 2
    /\ today = <<2025, 1, 5>>
    /\ payroll_period_year = 2025
    /\ payroll_period_month = 1

\* C18: with no API key, or with a period that has no dates, the script has
\* stopped with an error shown, no fetcher was called and there is no payroll
\* row, no preview and no worksheet.
C18_ConfigurationStops ==
    \/ start_date = NoDate
    \/ end_date = NoDate
    \/ ResolveApiKey(api_key_input, env_api_key) = ""
    => /\ pc = "stopped"
       /\ \E m \in messages : m[1] = "error"
       /\ requests = {}
       /\ payroll_data = <<>>
       /\ preview_rows = <<>>
       /\ sheet_rows = <<>>
       /\ totals_row = NoTotals

C18_Witness ==
    /\ clicked = "generate"
    /\ api_key_input = ""
    /\ env_api_key = ""
    /\ start_date # NoDate
    /\ pc = "stopped"
    /\ requests = {}
    /\ payroll_data = <<>>

\* What the steps for one user hand to the steps for the users after it,
\* besides the records appended so far.
RunShared ==
    <<start_date, end_date, period_days, overtime_rate, role_id_to_name,
      all_custom_roles>>

\* The records appended before this step are still there, unchanged, and at
\* most one was appended.
EarlierRecordsKept ==
    /\ Len(payroll_data') \in {Len(payroll_data), Len(payroll_data) + 1}
    /\ SubSeq(payroll_data', 1, Len(payroll_data)) = payroll_data

\* C16: a failed attendance fetch leaves the employee with 0 on-call hours and
\* the count of the assigned on-call shifts; a failed leave fetch leaves the
\* employee with 0 holiday days, 0 holiday hours and 0 sickness days, in the
\* locals and in the record appended. Either way the loop goes on to the
\* leave request, then to the next user or to the preview, and what the
\* other employees' records are computed from is as it was: the attendance
\* and leave steps change neither the period, the overtime rate, the role
\* dicts nor the records appended before, and an employee without on-call
\* shifts has 0 on-call hours whatever the attendance answer before was.
C16_FailedFetchDegradesOneRecord ==
    /\ [](pc = "leave" /\ on_call_shifts # <<>> /\ ~attendance_data.ok
             => on_call_hours = 0 /\ on_call_shift_count = Len(on_call_shifts))
    /\ [](pc = "leave" /\ on_call_shifts = <<>>
             => on_call_hours = 0 /\ on_call_shift_count = 0)
    /\ [][pc = "attendance"
             => /\ pc' = "leave"
                /\ payroll_data' = payroll_data
                /\ RunShared' = RunShared
                /\ loopVars' = loopVars]_vars
    /\ [][pc = "leave"
             => /\ pc' = (IF pending = <<>> THEN "preview" ELSE "shifts")
                /\ pending # <<>> => user' = Head(pending) /\ pending' = Tail(pending)
                /\ RunShared' = RunShared
                /\ EarlierRecordsKept
                /\ ~leave_json'.ok
                     => /\ holiday_days' = 0
                        /\ holiday_hours' = 0
                        /\ sickness_days' = 0
                        /\ Len(payroll_data') > Len(payroll_data)
                             => LET record == payroll_data'[Len(payroll_data')]
                                IN  /\ record.employee_name = user.name
                                    /\ record.holiday_days = 0
                                    /\ record.holiday_hours = 0
                                    /\ record.sickness_days = 0
                                    /\ record.on_call_hours = on_call_hours
                                    /\ record.on_call_shift_count = on_call_shift_count
                                    /\ record.total_hours = total_hours]_vars

\* The first of three employees had an on-call shift, the attendance fetch
\* and the leave fetch failed, the record was appended with the shift counted,
\* and the loop is at the second employee.
C16_Witness ==
    /\ pc = "shifts"
    /\ Len(pending) = 1
    /\ ~attendance_data.ok
    /\ <<"attendance", HourlyUser.id>> \in requests
    /\ ~leave_json.ok
    /\ <<"leave", HourlyUser.id>> \in requests
    /\ Len(on_call_shifts) = 1
    /\ Len(payroll_data) = 1
    /\ payroll_data[1].on_call_hours = 0
    /\ payroll_data[1].on_call_shift_count = 1
    /\ payroll_data[1].holiday_days = 0

\* A leave request was made in the run.
LeaveRequested == \E r \in requests : r[1] = "leave"

\* A warning is among the messages of the run.
Warned == \E m \in messages : m[1] = "warning"

\* C17 (as stated): no locally recovered error is swallowed silently. Once the
\* step that met it is done, a failed shifts fetch, a failed attendance
\* fetch, a failed leave fetch, a role name that is the fallback of a failed
\* role-name fetch, an approved leave entry whose date is no date, and an
\* on-call attendance with a non-positive duration each have a warning among
\* the messages of the run.
C17_EveryRecoveredErrorWarns ==
    /\ pc = "attendance" /\ ~shifts_json.ok => Warned
    /\ pc = "attendance" /\ (\E r \in DOMAIN role_id_to_name :
                                 /\ role_id_to_name[r] = FallbackRoleName(r)
                                 /\ role_id_to_name[r] # ApiRoleName(r))
         => Warned
    /\ pc = "leave" /\ on_call_shifts # <<>> /\ ~attendance_data.ok => Warned
    /\ pc = "leave" /\ on_call_shifts # <<>>
          /\ (\E k \in DOMAIN AttendanceList :
                 /\ ~AttendanceList[k].deleted
                 /\ \E j \in DOMAIN on_call_shifts :
                        on_call_shifts[j].shift_id = AttendanceList[k].shift
                 /\ ~Falsy(AttendanceList[k].in_time)
                 /\ ~Falsy(AttendanceList[k].out_time)
                 /\ AttendedSecondsOf(k) <= 0)
         => Warned
    /\ pc \in {"shifts", "preview"} /\ LeaveRequested /\ ~leave_json.ok => Warned
    /\ pc \in {"shifts", "preview"} /\ LeaveRequested
          /\ (\E i \in DOMAIN LeaveList :
                 /\ LeaveList[i].status = "approved"
                 /\ \E j \in DOMAIN LeaveList[i].dates :
                      date_str_to_date(LeaveList[i].dates[j].date) = NoDate)
         => Warned

\* C19: in the worksheet of a run, each row's Hours formula, Overtime formula
\* and TOTAL PAY (the formula of an hourly row, over every custom-role column
\* of the sheet; the literal of a salaried row), evaluated on the cells of
\* the row, give the hours_worked, overtime_hrs and total_pay that the preview
\* computes for the same employee.
C19_FormulasMatchPreview ==
    pc = "done" /\ sheet_rows # <<>>
    => /\ Len(sheet_rows) = Len(preview_rows)
       /\ \A i \in DOMAIN sheet_rows :
            /\ sheet_rows[i].employee_name = preview_rows[i].employee_name
            /\ DOMAIN sheet_rows[i].custom = DOMAIN all_custom_roles
            /\ sheet_rows[i].hours = preview_rows[i].hours_worked
            /\ sheet_rows[i].overtime_hrs = preview_rows[i].overtime_hrs
            /\ sheet_rows[i].total_pay = preview_rows[i].total_pay

\* A sheet of three rows with two custom-role columns: a salaried row, an
\* hourly row with hours in one of the two roles only, and an hourly row
\* with on-call hours and overtime.
C19_Witness ==
    /\ pc = "done"
    /\ Len(sheet_rows) = 3
    /\ Cardinality(DOMAIN all_custom_roles) = 2
    /\ \E i \in DOMAIN sheet_rows :
         /\ payroll_data[i].pay_type = "annual"
         /\ sheet_rows[i].total_pay > 0
    /\ \E i \in DOMAIN sheet_rows :
         /\ payroll_data[i].pay_type = "hourly"
         /\ sheet_rows[i].hours > 0
         /\ \E r \in DOMAIN all_custom_roles : sheet_rows[i].custom[r].hours > 0
         /\ \E r \in DOMAIN all_custom_roles : sheet_rows[i].custom[r].hours = 0
    /\ \E i \in DOMAIN sheet_rows :
         /\ payroll_data[i].pay_type = "hourly"
         /\ sheet_rows[i].on_call_hrs > 0
         /\ sheet_rows[i].overtime_hrs > 0

\* Pence of total_pay_sum: the sum of the Total Pay amounts of the preview
\* rows, each rounded to pence.
ReportedPaySum == SeqSum([i \in DOMAIN preview_rows |-> preview_rows[i].total_pay_rounded])

\* C20 (as stated): for a non-empty list of emitted employees the totals row
\* is the row after the last employee row, and the total_pay amounts
\* reported for the employees add up to the amount of the totals row in the
\* pay column, both in pence as the output reports money.
C20_ReportedPaySumsToTotal ==
    pc = "done" /\ sheet_rows # <<>>
    => /\ Len(sheet_rows) = Len(payroll_data)
       /\ totals_row.row = data_start_row + Len(payroll_data)
       /\ ReportedPaySum = RoundPay(totals_row.total_pay)

\* The rank of a name in the alphabetical order that ignores case.
AlphabeticalRank(name) ==
    CASE name \in {"Ann Lee", "ann lee"} -> 1
      [] name \in {"bob Ray", "Bob Ray"} -> 2
      [] name \in {"Cy Poe", "cy poe"} -> 3
      [] name \in {"Dee Fox", "dee fox"} -> 4

\* Salaried before hourly, and by name within either group.
InOutputOrder(records) ==
    \A i, j \in DOMAIN records :
        i < j =>
          /\ records[i].pay_type = "annual" \/ records[j].pay_type # "annual"
          /\ (records[i].pay_type = "annual") = (records[j].pay_type = "annual")
               => AlphabeticalRank(records[i].employee_name)
                    <= AlphabeticalRank(records[j].employee_name)

\* Each record is as many times in b as in a.
SameRecords(a, b) ==
    /\ Len(a) = Len(b)
    /\ \A i \in DOMAIN a :
          Cardinality({k \in DOMAIN a : a[k] = a[i]})
            = Cardinality({k \in DOMAIN b : b[k] = a[i]})

\* C21: the sort of a non-empty payroll_data keeps every record exactly once
\* and leaves the salaried records before the hourly ones, each group in
\* alphabetical order of the name, case ignored; the preview rows and the
\* worksheet rows are one per record, in that order.
C21_OutputOrder ==
    /\ [][pc = "preview" /\ payroll_data # <<>>
             => SameRecords(payroll_data, payroll_data') /\ InOutputOrder(payroll_data')]_vars
    /\ [](pc \in {"excel", "done"}
             => /\ InOutputOrder(payroll_data)
                /\ Len(preview_rows) = Len(payroll_data)
                /\ \A i \in DOMAIN preview_rows :
                      preview_rows[i].employee_name = payroll_data[i].employee_name)
    /\ [](pc = "done" /\ sheet_rows # <<>>
             => /\ Len(sheet_rows) = Len(payroll_data)
                /\ \A i \in DOMAIN sheet_rows :
                      sheet_rows[i].employee_name = payroll_data[i].employee_name)

\* Three rows in the worksheet: bob Ray salaried first, then Cy Poe and Dee
\* Fox hourly.
C21_Witness ==
    /\ pc = "done"
    /\ Len(sheet_rows) = 3
    /\ sheet_rows[1].employee_name = "bob Ray"
    /\ payroll_data[1].pay_type = "annual"
    /\ sheet_rows[2].employee_name = "Cy Poe"
    /\ payroll_data[2].pay_type = "hourly"
    /\ sheet_rows[3].employee_name = "Dee Fox"

\* The roles of the non-on-call shifts of a shift list for which the
\* employee has an override rate.
OverriddenRolesOf(shifts, names, rates) ==
    {shifts[i].role :
        i \in {k \in DOMAIN shifts :
                  /\ names[shifts[k].role] # "On-Call"
                  /\ shifts[k].role \in DOMAIN rates}}

\* The same, of the shifts that have both timestamps.
TimedOverriddenRolesOf(shifts, names, rates) ==
    OverriddenRolesOf(
        SelectSeq(shifts, LAMBDA x : x.start_time # None /\ x.end_time # None),
        names, rates)

\* The custom-role columns of a row: each role of all_custom_roles once, in
\* the order of the role names, with the employee's hours and rate in the
\* role, or zeros.
ColumnsOfRow(row, data) ==
    /\ Len(row.columns) = Cardinality(DOMAIN all_custom_roles)
    /\ {row.columns[k] : k \in DOMAIN row.columns} = DOMAIN all_custom_roles
    /\ \A j, k \in DOMAIN row.columns :
          j < k => RoleNameKey(all_custom_roles[row.columns[j]])
                     < RoleNameKey(all_custom_roles[row.columns[k]])
    /\ DOMAIN row.custom = DOMAIN all_custom_roles
    /\ \A r \in DOMAIN all_custom_roles :
          IF r \in DOMAIN data.custom_role_hours
          THEN /\ row.custom[r].hours = data.custom_role_hours[r].hours
               /\ row.custom[r].rate = data.custom_role_hours[r].rate
          ELSE /\ row.custom[r].hours = 0
               /\ row.custom[r].rate = 0

\* The steps after the classification leave the custom roles as they are,
\* the worksheet is rendered after the last employee, and its rows have the
\* columns of ColumnsOfRow.
ColumnsRendered ==
    /\ [][pc # "shifts" => all_custom_roles' = all_custom_roles]_vars
    /\ [](pc \in {"preview", "excel", "done"} => pending = <<>>)
    /\ [](pc = "done" /\ sheet_rows # <<>>
             => \A i \in DOMAIN sheet_rows : ColumnsOfRow(sheet_rows[i], payroll_data[i]))

\* C22 (as stated): the classification of an employee's shifts adds to the
\* custom roles exactly the roles of the employee's non-on-call shifts for
\* which the employee has an override rate, so that after the last employee
\* the custom roles are those of all processed employees, in whatever order
\* they were processed; the worksheet, rendered after that, has one pair of
\* columns per custom role in the order of the role names, with zeros for an
\* employee without hours in the role.
C22_ColumnsPerOverriddenRole ==
    /\ [][pc = "shifts"
             => DOMAIN all_custom_roles'
                  = DOMAIN all_custom_roles
                    \cup OverriddenRolesOf(IF shifts_json'.ok THEN shifts_json'.json ELSE <<>>,
                                           role_id_to_name', pay_details'.role_rates)]_vars
    /\ ColumnsRendered

\* C22 (amended): the same, the roles added being those of the employee's
\* non-on-call shifts that have both a start and an end timestamp.
C22_ColumnsPerTimedOverriddenRole ==
    /\ [][pc = "shifts"
             => DOMAIN all_custom_roles'
                  = DOMAIN all_custom_roles
                    \cup TimedOverriddenRolesOf(
                             IF shifts_json'.ok THEN shifts_json'.json ELSE <<>>,
                             role_id_to_name', pay_details'.role_rates)]_vars
    /\ ColumnsRendered

\* A worksheet with the columns of two custom roles, the role with the
\* greater id first, in which a row has zeros in a role where another row
\* has hours.
C22_Witness ==
    /\ pc = "done"
    /\ Len(sheet_rows) >= 2
    /\ Cardinality(DOMAIN all_custom_roles) = 2
    /\ sheet_rows[1].columns[1] > sheet_rows[1].columns[2]
    /\ \E i, j \in DOMAIN sheet_rows :
         \E r \in DOMAIN all_custom_roles :
            /\ r \notin DOMAIN payroll_data[i].custom_role_hours
            /\ sheet_rows[i].custom[r].hours = 0
            /\ sheet_rows[j].custom[r].hours > 0

\* The locals of a run that has fetched the users and made no other request:
\* nothing of a run before is in them.
FreshRun ==
    /\ role_id_to_name = EmptyDict
    /\ all_custom_roles = EmptyDict
    /\ payroll_data = <<>>
    /\ preview_rows = <<>>
    /\ sheet_rows = <<>>
    /\ totals_row = NoTotals
    /\ messages = {}
    /\ requests = {UsersRequest}
    /\ shifts_json = NoResponse
    /\ attendance_data = NoResponse
    /\ leave_json = NoResponse
    /\ <<total_seconds, base_rate_seconds, total_hours, base_rate_hours>> = <<0, 0, 0, 0>>
    /\ <<role_hours, custom_role_hours, on_call_shifts>> = <<EmptyDict, EmptyDict, <<>>>>
    /\ <<on_call_hours, on_call_shift_count>> = <<0, 0>>
    /\ <<holiday_days, holiday_hours, sickness_days>> = <<0, 0, 0>>
    /\ <<rate_1, fixed_hours>> = <<0, 0>>

RequestsFor(id) == {r[1] : r \in {q \in requests : q[2] = id}}

\* C24: the users request is made before the main loop; for each employee
\* the main loop requests the shifts, then the attendance if and only if the
\* classifier returned an on-call shift, then the leave, one request a step;
\* no request is made for an employee the loop has not reached, and when the
\* loop reaches an employee the shifts and the leave of every employee
\* before have been requested.
C24_RequestOrder ==
    /\ [](pc \in {"shifts", "attendance", "leave"}
             => /\ UsersRequest \in requests
                /\ \A r \in requests \ {UsersRequest} :
                      /\ \A i \in DOMAIN pending : pending[i].id # r[2]
                      /\ r[2] # user.id
                           => {"shifts", "leave"} \subseteq RequestsFor(r[2]))
    /\ [](pc = "shifts" => RequestsFor(user.id) = {})
    /\ [](pc = "attendance" => RequestsFor(user.id) = {"shifts"})
    /\ [](pc = "leave"
             => RequestsFor(user.id)
                  = IF on_call_shifts # <<>> THEN {"shifts", "attendance"} ELSE {"shifts"})
    /\ [][pc = "shifts"
             => pc' = "attendance" /\ requests' = requests \cup {<<"shifts", user.id>>}]_vars
    /\ [][pc = "attendance"
             => /\ pc' = "leave"
                /\ requests' = (IF on_call_shifts # <<>>
                                THEN requests \cup {<<"attendance", user.id>>}
                                ELSE requests)]_vars
    /\ [][pc = "leave"
             => /\ pc' = (IF pending = <<>> THEN "preview" ELSE "shifts")
                /\ requests' = requests \cup {<<"leave", user.id>>}]_vars
    /\ [][(pc \in {"preview", "excel"}) => requests' = requests]_vars

\* The loop is at the third employee: attendance was requested for one of
\* the two employees before and not for the other, shifts and leave for both.
C24_Witness ==
    /\ pc = "shifts"
    /\ pending = <<>>
    /\ user = ZeroHoursUser
    /\ RequestsFor(HourlyUser.id) = {"shifts", "attendance", "leave"}
    /\ RequestsFor(SalariedUser.id) = {"shifts", "leave"}
    /\ RequestsFor(ZeroHoursUser.id) = {}

\* C25 (as stated): for every hourly record the hours paid at rate_1 as
\* hours_at_base, in the preview and in the worksheet, are at most the
\* record's base_rate_hours, the hours worked in roles without an override
\* rate.
C25_BaseHoursWithinBaseBucket ==
    pc = "done" /\ sheet_rows # <<>>
    => \A i \in DOMAIN payroll_data :
         payroll_data[i].pay_type = "hourly"
         => /\ preview_rows[i].hours_worked <= payroll_data[i].base_rate_hours
            /\ sheet_rows[i].hours <= payroll_data[i].base_rate_hours

\* C26: for every record whose worked hours, on-call hours and fixed hours
\* are not negative, the hours at base rate, the on-call hours and the
\* overtime hours add up to the total hours displayed, in the preview and in
\* the worksheet, also when the hours at base rate are negative.
C26_DisplayedHoursAccounted ==
    pc = "done" /\ sheet_rows # <<>>
    => \A i \in DOMAIN payroll_data :
         /\ payroll_data[i].total_hours >= 0
         /\ payroll_data[i].on_call_hours >= 0
         /\ payroll_data[i].fixed_hours >= 0
         => /\ preview_rows[i].hours_worked + payroll_data[i].on_call_hours
                 + preview_rows[i].overtime_hrs
               = payroll_data[i].total_hours_display
            /\ sheet_rows[i].hours + sheet_rows[i].on_call_hrs + sheet_rows[i].overtime_hrs
               = sheet_rows[i].total_hrs

\* A record with more on-call hours than fixed hours: the hours at base rate
\* are negative and there is overtime.
C26_Witness ==
    /\ pc = "done"
    /\ sheet_rows # <<>>
    /\ payroll_data[1].total_hours > 0
    /\ payroll_data[1].on_call_hours > payroll_data[1].fixed_hours
    /\ preview_rows[1].hours_worked < 0
    /\ sheet_rows[1].hours < 0
    /\ preview_rows[1].overtime_hrs > 0

\* The counted attendance records of the on-call shift with this id.
CountedFor(id) == {k \in CountedAttendance : AttendanceList[k].shift = id}

\* The seconds of the longest counted attendance record of the shift, 0
\* without one.
LongestAttendanceOf(id) ==
    IF CountedFor(id) = {} THEN 0
    ELSE LET longest == CHOOSE k \in CountedFor(id) :
                            \A j \in CountedFor(id) :
                                AttendedSecondsOf(j) <= AttendedSecondsOf(k)
         IN  AttendedSecondsOf(longest)

\* C27 (as stated): each on-call shift is credited with at most one of its
\* attendance records, so the on-call hours are at most the hours of one
\* record, the longest, for each shift.
C27_OneAttendancePerShift ==
    pc = "leave" /\ on_call_shifts # <<>> /\ attendance_data.ok
    => on_call_hours
         <= HoursOfSeconds(SetSum([id \in ShiftLookupIds(on_call_shifts) |->
                                      LongestAttendanceOf(id)],
                                  ShiftLookupIds(on_call_shifts)))

\* A date lies in a period when it is neither before its start nor after its
\* end.
DateInPeriod(date, period) ==
    /\ period # NoPeriod
    /\ ToOrdinal(period[1]) <= ToOrdinal(date)
    /\ ToOrdinal(date) <= ToOrdinal(period[2])

\* The periods of the selected month and of the months before and after it.
SelectedPeriod ==
    get_monthly_payroll_period(payroll_period_year, payroll_period_month)

FollowingPeriod ==
    LET next == NextPeriod(payroll_period_year, payroll_period_month)
    IN  get_monthly_payroll_period(next[1], next[2])

PrecedingPeriod ==
    LET previous == PreviousPeriod(payroll_period_year, payroll_period_month)
    IN  get_monthly_payroll_period(previous[1], previous[2])

\* C28: the monthly periods tile the calendar. Whenever the selected (year,
\* month) has a valid period, the period shown is the one of that month; the
\* period of the following month, when valid, starts on the day after its end
\* date; every date of the selected calendar month lies in exactly one of the
\* periods of the preceding and the selected month, and in no other
\* neighbouring period; and calculate_period_days of the period is the number
\* of days of the month in which it starts, between 28 and 31.
C28_PeriodsTileCalendar ==
    start_date # NoDate =>
        /\ <<start_date, end_date>> = SelectedPeriod
        /\ FollowingPeriod # NoPeriod =>
              FollowingPeriod[1] = <<end_date[1], end_date[2], end_date[3] + 1>>
        /\ PrecedingPeriod # NoPeriod =>
              \A day \in 1..DaysInMonth(payroll_period_year, payroll_period_month) :
                LET date == <<payroll_period_year, payroll_period_month, day>>
                IN  /\ DateInPeriod(date, SelectedPeriod)
                          # DateInPeriod(date, PrecedingPeriod)
                    /\ ~DateInPeriod(date, FollowingPeriod)
        /\ period_days = DaysInMonth(start_date[1], start_date[2])
        /\ period_days \in 28..31

\* C28 witness: the period of a leap year's February, 11 February to 10 March
\* 2024, has twenty-nine days and is followed by the period of 11 March.
C28_Witness ==
    /\ start_date = <<2024, 2, 11>>
    /\ end_date = <<2024, 3, 10>>
    /\ period_days = 29
    /\ FollowingPeriod[1] = <<2024, 3, 11>>

====
